---- MODULE Spec2Model ----
(***************************************************************************)
(* A model of epinorm's geocoding resolution engine: the SQLite feature    *)
(* cache (epinorm/cache.py), the Nominatim client (epinorm/geo.py), the    *)
(* per-row geocoding loops of the data handlers and the gazetteer builder  *)
(* (epinorm/norm.py) and the builder of the admin-level policy table       *)
(* (create_admin_level_1_table.py).                                        *)
(*                                                                         *)
(* Python values are modelled as follows.                                  *)
(*   - dict        : a record; an absent key is an absent field            *)
(*   - str         : a string; f-strings and ", ".join are \o              *)
(*   - list        : a sequence                                            *)
(*   - None / {}   : the records PyNone / EmptyDict below                  *)
(*   - a JSON value handed over by the remote service is tagged with its   *)
(*     Python type where the code's behaviour depends on that type         *)
(***************************************************************************)
EXTENDS Integers, Sequences, FiniteSets, TLC

VARIABLES
    feature_table,  \* table `feature`: the set of stored rows
    feature_index,  \* table `feature_index`: rows [term, term_type, feature_id]
    requested,      \* lookup keys for which a search/reverse/lookup request was sent
    last            \* what the last operation on the geocoder or the cache did

geoVars == <<feature_table, feature_index, requested, last>>

(***************************************************************************)
(* Bounds of the model.                                                    *)
(***************************************************************************)
MaxOsmId == 2       \* numeric OSM ids 1..MaxOsmId
MaxTerm == 1        \* lookup terms "t1".."t<MaxTerm>"

(***************************************************************************)
(* Python's None and the empty dict returned by get_feature.               *)
(***************************************************************************)
PyNone == [py |-> "None"]
EmptyDict == [py |-> "dict()"]

(***************************************************************************)
(* geo.py constants.                                                       *)
(***************************************************************************)
REMOTE_REQUEST_DELAY == 2
NOMINATIM_API_METHODS == {"lookup", "search", "reverse"}
OSM_ELEMENT_TYPES == ("node" :> "N") @@ ("way" :> "W") @@ ("relation" :> "R")
OsmLetters == {OSM_ELEMENT_TYPES[k] : k \in DOMAIN OSM_ELEMENT_TYPES}

(***************************************************************************)
(* The remote service.  A raw result is the JSON object Nominatim returns  *)
(* for one place; the keys the code reads with .get() may be absent.       *)
(***************************************************************************)
OsmIds == 1..MaxOsmId
RawCore(name) ==
    [display_name |-> name, place_rank |-> 16, lat |-> "51.5", lon |-> "-0.12",
     boundingbox |-> "bbox", geojson |-> "geojson"]

\* /search and /reverse spell the element type out and give an "addresstype";
\* /lookup of some objects answers with the one-letter type and no "addresstype"
ValidRaws ==
    { RawCore("A") @@ [osm_type |-> "relation", osm_id |-> n, addresstype |-> "city"] :
        n \in OsmIds }
    \cup
    { RawCore("B") @@ [osm_type |-> "R", osm_id |-> n] : n \in OsmIds }
    \cup
    { RawCore("A") @@ [osm_type |-> "relation", osm_id |-> 1,
                        addresstype |-> "mountain_range"] }

InvalidRaws ==
    { RawCore("A") @@ [osm_type |-> "bogus", osm_id |-> 1, addresstype |-> "city"],
      \* HTTP 200 body of /reverse when nothing is found: {"error": ...}
      [error |-> "Unable to geocode"] }

Raws == ValidRaws \cup InvalidRaws

\* dict.get(key, default)
Get(d, key, default) == IF key \in DOMAIN d THEN d[key] ELSE default

(***************************************************************************)
(* One component of the address hierarchy returned by /details.            *)
(***************************************************************************)
CountryComp ==
    [type |-> "country", localname |-> "A", osm_type |-> "R", osm_id |-> 1,
     admin_level |-> 2, rank_address |-> 4]
CityComp ==
    [type |-> "city", localname |-> "B", osm_type |-> "R", osm_id |-> 2,
     admin_level |-> 8, rank_address |-> 16]

\* the JSON value under "address": a list of components, or null
GeoAddresses == {PyNone, [py |-> "list", items |-> <<CityComp, CountryComp>>]}

\* an HTTP answer: a status and, for 200, the decoded JSON body
HttpError == [status |-> 500]
Ok(body) == [status |-> 200, body |-> body]

\* a JSON array
PyList(items) == [py |-> "list", items |-> items]
IsList(v) == "py" \in DOMAIN v /\ v.py = "list"

\* /search and /lookup answer with an array, /reverse with one object
ApiAnswers(method) ==
    {HttpError} \cup
    (IF method = "reverse"
     THEN {Ok(r) : r \in Raws}
     ELSE {Ok(PyList(<<>>))} \cup {Ok(PyList(<<r>>)) : r \in Raws})
DetailsAnswers == {HttpError} \cup {Ok([address |-> a]) : a \in GeoAddresses}

(***************************************************************************)
(* epinorm/cache.py : SQLiteCache.                                         *)
(***************************************************************************)
\* Python None passed where the code expects a str (feature_id, term, term_type)
NoArg == "None"
\* truth value of an optional str argument
Truthy(s) == s # NoArg /\ s # ""

\* The columns of table `feature`, in the order of the INSERT statement.
FeatureColumns ==
    <<"id", "osm_id", "osm_type", "name", "address", "place_rank",
      "latitude", "longitude", "bounding_box", "polygon">>

\* sqlite3 binds None, int, float, str and bytes; a list parameter makes
\* cursor.execute raise ProgrammingError (no adapter is registered).  Of the
\* values a feature holds, only "address" can be a list.
Bindable(feature) == ~IsList(feature.address)

\* The key of table `feature` (cache_db_schema.sql).
FeaturePrimaryKey == "id"

\* INSERT OR REPLACE INTO feature
InsertOrReplaceFeature(ft, row) ==
    {f \in ft : f[FeaturePrimaryKey] # row[FeaturePrimaryKey]} \cup {row}

\* INSERT OR IGNORE INTO feature: the row is ignored when its key is taken.
InsertOrIgnoreFeature(ft, row) ==
    IF \E f \in ft : f[FeaturePrimaryKey] = row[FeaturePrimaryKey]
    THEN ft
    ELSE ft \cup {row}

\* INSERT OR IGNORE INTO feature_index
InsertOrIgnoreIndex(fi, row) == fi \cup {row}

\* SELECT * FROM feature WHERE id = ?  followed by _get_record
cache_get_feature(ft, feature_id) ==
    IF \E f \in ft : f.id = feature_id
    THEN CHOOSE f \in ft : f.id = feature_id
    ELSE PyNone

\* find_feature whose query selects no row
cache_find_feature_NoRow(ft, fi, term) == {}

\* The rows of feature_index JOIN feature WHERE term = ? ; find_feature
\* returns the one fetchone yields, or None when there is none.
cache_find_feature(ft, fi, term) ==
    { f \in ft : \E r \in fi : r.term = term /\ r.feature_id = f.id }

\* what _get_record can return for the rows of a query
FetchOne(rows) == IF rows = {} THEN {PyNone} ELSE rows

cache_save_feature(ft, fi, feature, term, term_type) ==
    IF ~Bindable(feature)
    THEN [raised |-> TRUE, ft |-> ft, fi |-> fi]
    ELSE [raised |-> FALSE,
          ft |-> InsertOrIgnoreFeature(ft, feature),
          fi |-> IF Truthy(term) /\ Truthy(term_type)
                 THEN InsertOrIgnoreIndex(fi,
                        [term |-> term, term_type |-> term_type,
                         feature_id |-> feature.id])
                 ELSE fi]

(***************************************************************************)
(* epinorm/geo.py : Geocoder and NominatimGeocoder.                        *)
(***************************************************************************)
Sleep == [ev |-> "sleep", seconds |-> REMOTE_REQUEST_DELAY]
Request(endpoint, status) == [ev |-> "request", url |-> endpoint, status |-> status]

\* fetch without the delay
fetch_NoSleep(endpoint, answer) ==
    [events |-> <<Request(endpoint, answer.status)>>,
     raised |-> answer.status # 200,
     json |-> IF answer.status = 200 THEN answer.body ELSE PyNone]

\* fetch that hands a failed response's body on instead of raising
fetch_NoRaise(endpoint, answer) ==
    [events |-> <<Sleep, Request(endpoint, answer.status)>>,
     raised |-> FALSE,
     json |-> IF answer.status = 200 THEN answer.body ELSE PyNone]

fetch(endpoint, answer) ==
    [events |-> <<Sleep, Request(endpoint, answer.status)>>,
     raised |-> answer.status # 200,
     json |-> IF answer.status = 200 THEN answer.body ELSE PyNone]

\* create_feature_id that validates only that the element type is given
create_feature_id_AnyType(d) ==
    IF "osm_type" \notin DOMAIN d \/ "osm_id" \notin DOMAIN d
    THEN [raised |-> TRUE, id |-> NoArg]
    ELSE [raised |-> FALSE,
          id |-> (IF d.osm_type \in DOMAIN OSM_ELEMENT_TYPES
                  THEN OSM_ELEMENT_TYPES[d.osm_type] ELSE d.osm_type)
                 \o ToString(d.osm_id)]

\* d holds the osm_type / osm_id pair (a raw result or an address component)
create_feature_id(d) ==
    LET osm_type == Get(d, "osm_type", NoArg)
    IN  IF osm_type \notin OsmLetters /\ osm_type \notin DOMAIN OSM_ELEMENT_TYPES
        THEN [raised |-> TRUE, id |-> NoArg]
        ELSE IF "osm_id" \notin DOMAIN d
        THEN [raised |-> TRUE, id |-> NoArg]
        ELSE [raised |-> FALSE,
              id |-> (IF osm_type \in DOMAIN OSM_ELEMENT_TYPES
                      THEN OSM_ELEMENT_TYPES[osm_type] ELSE osm_type)
                     \o ToString(d.osm_id)]

get_detailed_address(feature_id, answer) ==
    LET result == fetch("details", answer)
    IN  [events |-> result.events,
         raised |-> result.raised,
         address |-> IF result.raised THEN PyNone ELSE result.json.address]

json_dumps(v) == "\"" \o v \o "\""

normalize_feature(feature, details) ==
    LET fid == create_feature_id(feature)
        addr == get_detailed_address(fid.id, details)
    IN  IF fid.raised
        THEN [outcome |-> "ValueError", events |-> <<>>, feature |-> PyNone]
        ELSE IF addr.raised
        THEN [outcome |-> "HTTPError", events |-> addr.events, feature |-> PyNone]
        ELSE [outcome |-> "ok", events |-> addr.events,
              feature |->
                [id |-> fid.id,
                 osm_id |-> feature.osm_id,
                 osm_type |-> feature.osm_type,
                 name |-> feature.display_name,
                 address |-> addr.address,
                 place_rank |-> feature.place_rank,
                 latitude |-> feature.lat,
                 longitude |-> feature.lon,
                 bounding_box |-> json_dumps(feature.boundingbox),
                 polygon |-> json_dumps(feature.geojson)]]

\* the results get_feature takes for "no result": never
IsExcluded_Never(feature) == FALSE

\* "we don't want mountain ranges as results"
IsExcluded(feature) == Get(feature, "addresstype", "") = "mountain_range"

\* `not results` for a decoded JSON body
Falsy(v) == v = PyNone \/ v = EmptyDict \/ (IsList(v) /\ v.items = <<>>)

\* The result of one get_feature call: the tables it leaves, what it returns
\* (ret), how it ended (outcome), the sleeps and requests it made (events),
\* the remote result it examined (remote) and the feature it normalized.
Result(ft, fi, ret, outcome, events, remote, normalized) ==
    [ft |-> ft, fi |-> fi, ret |-> ret, outcome |-> outcome, events |-> events,
     remote |-> remote, normalized |-> normalized]

\* get_feature that normalizes and saves the remote result before it looks at
\* its address type
get_feature_SaveBeforeExclusion(ft, fi, api_method, feature_id, term_arg, term_type, fetched, api, details) ==
    LET term == IF Truthy(feature_id) THEN feature_id ELSE term_arg
        cached == IF Truthy(feature_id)
                  THEN cache_get_feature(ft, feature_id)
                  ELSE IF cache_find_feature(ft, fi, term) = {} THEN PyNone ELSE fetched
        results == fetch(api_method, api)
        feature == IF IsList(results.json) THEN results.json.items[1] ELSE results.json
        normalized == normalize_feature(feature, details)
        saved == cache_save_feature(ft, fi, normalized.feature, term, term_type)
    IN  IF cached # PyNone
        THEN Result(ft, fi, cached, "cache", <<>>, PyNone, PyNone)
        ELSE IF results.raised
        THEN Result(ft, fi, PyNone, "HTTPError", results.events, PyNone, PyNone)
        ELSE IF Falsy(results.json)
        THEN Result(ft, fi, EmptyDict, "no results", results.events, PyNone, PyNone)
        ELSE IF IsExcluded(feature) /\ (normalized.outcome # "ok" \/ saved.raised)
        THEN Result(ft, fi, EmptyDict, "no results", results.events, feature, PyNone)
        ELSE IF IsExcluded(feature)
        THEN Result(saved.ft, saved.fi, EmptyDict, "no results",
                    results.events \o normalized.events, feature, PyNone)
        ELSE IF normalized.outcome # "ok"
        THEN Result(ft, fi, PyNone, normalized.outcome,
                    results.events \o normalized.events, feature, PyNone)
        ELSE IF saved.raised
        THEN Result(ft, fi, PyNone, "ProgrammingError",
                    results.events \o normalized.events, feature, normalized.feature)
        ELSE Result(saved.ft, saved.fi, normalized.feature, "remote source",
                    results.events \o normalized.events, feature, normalized.feature)

get_feature(ft, fi, api_method, feature_id, term_arg, term_type, fetched, api, details) ==
    LET term == IF Truthy(feature_id) THEN feature_id ELSE term_arg
        cached == IF Truthy(feature_id)
                  THEN cache_get_feature(ft, feature_id)
                  ELSE IF cache_find_feature(ft, fi, term) = {} THEN PyNone ELSE fetched
        results == fetch(api_method, api)
        feature == IF IsList(results.json) THEN results.json.items[1] ELSE results.json
        normalized == normalize_feature(feature, details)
        saved == cache_save_feature(ft, fi, normalized.feature, term, term_type)
    IN  IF cached # PyNone
        THEN Result(ft, fi, cached, "cache", <<>>, PyNone, PyNone)
        ELSE IF results.raised
        THEN Result(ft, fi, PyNone, "HTTPError", results.events, PyNone, PyNone)
        ELSE IF Falsy(results.json)
        THEN Result(ft, fi, EmptyDict, "no results", results.events, PyNone, PyNone)
        ELSE IF IsExcluded(feature)
        THEN Result(ft, fi, EmptyDict, "no results", results.events, feature, PyNone)
        ELSE IF normalized.outcome # "ok"
        THEN Result(ft, fi, PyNone, normalized.outcome,
                    results.events \o normalized.events, feature, PyNone)
        ELSE IF saved.raised
        THEN Result(ft, fi, PyNone, "ProgrammingError",
                    results.events \o normalized.events, feature, normalized.feature)
        ELSE Result(saved.ft, saved.fi, normalized.feature, "remote source",
                    results.events \o normalized.events, feature, normalized.feature)

(***************************************************************************)
(* Specification Spec: a sequence of NominatimGeocoder.get_feature calls   *)
(* against one cache store.  A call that raises ends the run it was made   *)
(* in; the store is a file and outlives the run, so later calls (of a      *)
(* later run) see what the earlier ones committed.                         *)
(***************************************************************************)
Terms == {"t" \o ToString(i) : i \in 1..MaxTerm}
TermTypes == {"query", "coordinate"}
FeatureIds == {"R" \o ToString(n) : n \in OsmIds}

\* the lookup key of a call: the id, or the (term, term_type) pair
IdKey(feature_id) == feature_id
TermKey(term, term_type) == term \o "|" \o term_type
Keys == {IdKey(i) : i \in FeatureIds} \cup {TermKey(t, tt) : t \in Terms, tt \in TermTypes}

\* the API method the callers in norm.py use for each kind of term
MethodOf(term_type) == IF term_type = "coordinate" THEN "reverse" ELSE "search"

\* /lookup answers with the object that was asked for
AnswersLookup(api, feature_id) ==
    (api.status = 200 /\ ~Falsy(api.body))
        => LET c == create_feature_id(api.body.items[1])
           IN  c.raised \/ c.id = feature_id

\* `history` says whether the history variables are kept: the keys requested
\* so far, and a tick that tells two successive identical calls apart.
Record(op, key, r, history) ==
    [op |-> op, key |-> key, outcome |-> r.outcome, ret |-> r.ret,
     events |-> r.events, remote |-> r.remote, normalized |-> r.normalized,
     tick |-> IF history THEN 1 - last.tick ELSE last.tick]

Requested(events) == \E i \in 1..Len(events) : events[i].ev = "request"

Init ==
    /\ feature_table = {}
    /\ feature_index = {}
    /\ requested = {}
    /\ last = [op |-> "init", key |-> NoArg, outcome |-> "init", ret |-> PyNone,
               events |-> <<>>, remote |-> PyNone, normalized |-> PyNone, tick |-> 0]

\* get_feature(method, args, term=term, term_type=term_type)
GetFeatureByTerm(history) ==
    \E term \in Terms, term_type \in TermTypes, details \in DetailsAnswers :
    \E api \in ApiAnswers(MethodOf(term_type)),
       fetched \in FetchOne(cache_find_feature(feature_table, feature_index, term)) :
        LET r == get_feature(feature_table, feature_index, MethodOf(term_type),
                             NoArg, term, term_type, fetched, api, details)
        IN  /\ feature_table' = r.ft
            /\ feature_index' = r.fi
            /\ requested' = IF history /\ Requested(r.events)
                            THEN requested \cup {TermKey(term, term_type)}
                            ELSE requested
            /\ last' = Record("get_feature", TermKey(term, term_type), r, history)

\* get_feature("lookup", args, feature_id=feature_id)
GetFeatureById(history) ==
    \E feature_id \in FeatureIds, details \in DetailsAnswers :
    \E api \in ApiAnswers("lookup") :
        /\ AnswersLookup(api, feature_id)
        /\ LET r == get_feature(feature_table, feature_index, "lookup",
                                feature_id, NoArg, NoArg, PyNone, api, details)
           IN  /\ feature_table' = r.ft
               /\ feature_index' = r.fi
               /\ requested' = IF history /\ Requested(r.events)
                               THEN requested \cup {IdKey(feature_id)}
                               ELSE requested
               /\ last' = Record("get_feature", IdKey(feature_id), r, history)

Next == GetFeatureByTerm(FALSE) \/ GetFeatureById(FALSE)

Spec == Init /\ [][Next]_geoVars

\* the same calls, with the history variables kept
NextLifetime == GetFeatureByTerm(TRUE) \/ GetFeatureById(TRUE)

SpecLifetime == Init /\ [][NextLifetime]_geoVars

(***************************************************************************)
(* Specification SpecCache: the cache's own operations called directly.    *)
(***************************************************************************)
\* the features normalize_feature can produce
NormalizedFeatures ==
    { normalize_feature(raw, Ok([address |-> a])).feature :
        raw \in ValidRaws, a \in GeoAddresses }

\* cache.save_feature(feature, term, term_type)
SaveFeature ==
    \E feature \in NormalizedFeatures,
       term \in Terms \cup {NoArg}, term_type \in TermTypes \cup {NoArg} :
        LET s == cache_save_feature(feature_table, feature_index, feature, term, term_type)
        IN  /\ feature_table' = s.ft
            /\ feature_index' = s.fi
            /\ last' = [op |-> "save_feature", key |-> feature.id,
                        outcome |-> IF s.raised THEN "ProgrammingError" ELSE "saved",
                        ret |-> PyNone, events |-> <<>>, remote |-> PyNone,
                        normalized |-> feature, tick |-> last.tick]
            /\ UNCHANGED requested

NextCache == SaveFeature

SpecCache == Init /\ [][NextCache]_geoVars

(***************************************************************************)
(* Claims about get_feature and the cache.                                 *)
(***************************************************************************)
IsGetFeature(l) == l.op = "get_feature"
ReturnedFeature(l) == l.ret # PyNone /\ l.ret # EmptyDict
Requests(events) == {i \in 1..Len(events) : events[i].ev = "request"}

\* C1: over the lifetime of the cache at most one remote call is made for a
\* given id or (term, term_type): a get_feature call for a key that was
\* requested before sends no request.
C1_AtMostOneRemoteCall ==
    [][\A k \in Keys :
          (k \in requested /\ IsGetFeature(last') /\ last'.key = k)
              => Requests(last'.events) = {}]_geoVars

\* C2: when get_feature is called twice in a row with the same id or the same
\* term and term_type and the first call returned a feature, the second call
\* returns an equal feature.
C2_SecondCallReturnsSameFeature ==
    [][(IsGetFeature(last) /\ ReturnedFeature(last)
            /\ IsGetFeature(last') /\ last'.key = last.key /\ last'.tick # last.tick)
          => last'.ret = last.ret]_geoVars

\* C3: a feature that normalize_feature produced and get_feature handed to
\* save_feature is returned by the cache's get_feature(id), equal on every field.
C3_RoundTrip ==
    (IsGetFeature(last) /\ last.normalized # PyNone)
        => cache_get_feature(feature_table, last.normalized.id) = last.normalized

\* C4: a save_feature call keeps every stored row as it is, leaves the feature
\* table unchanged when the id is already stored, and never leaves two rows
\* with one id.
C4_SaveIsInsertOrIgnore ==
    [][(last'.op = "save_feature")
          => /\ feature_table \subseteq feature_table'
             /\ (\E f \in feature_table : f.id = last'.normalized.id)
                    => feature_table' = feature_table
             /\ \A f, g \in feature_table' : f.id = g.id => f = g]_geoVars

\* a save of an id already stored with other field values has returned
C4_Witness ==
    /\ last.op = "save_feature" /\ last.outcome = "saved"
    /\ last.normalized \notin feature_table
    /\ \E f \in feature_table : f.id = last.normalized.id

\* C5: in every get_feature call each outbound request (search, reverse,
\* lookup, details) comes directly after a sleep of REMOTE_REQUEST_DELAY,
\* whatever the status of the response.
C5_DelayBeforeEveryRequest ==
    \A i \in Requests(last.events) : i > 1 /\ last.events[i - 1] = Sleep

\* a call made two requests and the second one failed
C5_Witness ==
    /\ IsGetFeature(last)
    /\ Cardinality(Requests(last.events)) = 2
    /\ last.events[Len(last.events)].status # 200

\* C6: when a request of a get_feature call is answered with a non-success
\* status the call raises, the failed request is the last one the call makes,
\* and the call writes nothing to the feature and feature_index tables.
C6_HttpErrorNoRetryNoWrite ==
    [][(IsGetFeature(last')
            /\ \E i \in Requests(last'.events) : last'.events[i].status # 200)
          => /\ last'.outcome = "HTTPError"
             /\ last'.ret = PyNone
             /\ last'.events[Len(last'.events)].status # 200
             /\ \A i \in Requests(last'.events) :
                    last'.events[i].status # 200 => i = Len(last'.events)
             /\ feature_table' = feature_table
             /\ feature_index' = feature_index]_geoVars

\* the details request of a call failed after its search succeeded
C6_Witness ==
    /\ IsGetFeature(last) /\ last.outcome = "HTTPError"
    /\ Cardinality(Requests(last.events)) = 2
    /\ feature_table # {}

\* C7: a get_feature call whose remote result has address type mountain_range
\* returns the empty result and writes nothing to the cache.
C7_MountainRangeIsNoResult ==
    [][(IsGetFeature(last') /\ last'.remote # PyNone
            /\ Get(last'.remote, "addresstype", "") = "mountain_range")
          => /\ last'.ret = EmptyDict
             /\ feature_table' = feature_table
             /\ feature_index' = feature_index]_geoVars

\* a reverse lookup was answered with a mountain range
C7_Witness ==
    /\ IsGetFeature(last) /\ last.remote # PyNone
    /\ Get(last.remote, "addresstype", "") = "mountain_range"
    /\ last.events[2].url = "reverse"

(***************************************************************************)
(* Python str operations used by the data handlers, computed character by  *)
(* character.  Character classes cover ASCII text.                         *)
(***************************************************************************)
Char(s, i) == SubSeq(s, i, i)
Chars(s) == [i \in 1..Len(s) |-> Char(s, i)]

RECURSIVE JoinStr(_)
\* "".join(parts)
JoinStr(parts) == IF Len(parts) = 0 THEN "" ELSE Head(parts) \o JoinStr(Tail(parts))

RECURSIVE str_join(_, _)
\* sep.join(parts)
str_join(sep, parts) ==
    IF Len(parts) = 0 THEN ""
    ELSE IF Len(parts) = 1 THEN Head(parts)
    ELSE Head(parts) \o sep \o str_join(sep, Tail(parts))

UPPERCASE == "ABCDEFGHIJKLMNOPQRSTUVWXYZ"
LOWERCASE == "abcdefghijklmnopqrstuvwxyz"
DIGITS == "0123456789"
WHITESPACE == " "

CharSet(s) == {Char(s, i) : i \in 1..Len(s)}
UpperChars == CharSet(UPPERCASE)
LowerChars == CharSet(LOWERCASE)
SpaceChars == CharSet(WHITESPACE)
\* \w of the re module
WordChars == UpperChars \cup LowerChars \cup CharSet(DIGITS) \cup {"_"}
LowerOf ==
    [c \in UpperChars |->
        Char(LOWERCASE, CHOOSE i \in 1..Len(UPPERCASE) : Char(UPPERCASE, i) = c)]

Positions(s, c) == {i \in 1..Len(s) : Char(s, i) = c}
Contains(s, c) == \E i \in 1..Len(s) : Char(s, i) = c
SetMin(S) == CHOOSE m \in S : \A n \in S : m <= n
SetMax(S) == CHOOSE m \in S : \A n \in S : n <= m

IsUpper(c) == c \in UpperChars
IsLower(c) == c \in LowerChars
IsLetter(c) == IsUpper(c) \/ IsLower(c)
IsSpace(c) == c \in SpaceChars
IsWord(c) == c \in WordChars

\* str.lower()
str_lower(s) ==
    JoinStr([i \in 1..Len(s) |->
                IF IsUpper(Char(s, i)) THEN LowerOf[Char(s, i)] ELSE Char(s, i)])

\* str.replace(old, new) for a one-character old
str_replace(s, old, new) ==
    JoinStr([i \in 1..Len(s) |-> IF Char(s, i) = old THEN new ELSE Char(s, i)])

\* str.strip()
str_strip(s) ==
    LET kept == {i \in 1..Len(s) : ~IsSpace(Char(s, i))}
    IN  IF kept = {} THEN "" ELSE SubSeq(s, SetMin(kept), SetMax(kept))

RECURSIVE str_split(_, _)
\* str.split(sep) for a one-character sep
str_split(s, sep) ==
    IF ~Contains(s, sep) THEN <<s>>
    ELSE LET i == SetMin(Positions(s, sep))
         IN  <<SubSeq(s, 1, i - 1)>> \o str_split(SubSeq(s, i + 1, Len(s)), sep)

\* str.split(sep, 1) of a string that contains sep
str_split_once(s, sep) ==
    LET i == SetMin(Positions(s, sep))
    IN  <<SubSeq(s, 1, i - 1), SubSeq(s, i + 1, Len(s))>>

\* re.sub(r"\(.+\)", "", s): the match is greedy, from the first "(" to the
\* last ")" with at least one character in between
re_sub_parenthesised(s) ==
    IF ~Contains(s, "(") \/ ~Contains(s, ")") THEN s
    ELSE LET i == SetMin(Positions(s, "("))
             j == SetMax(Positions(s, ")"))
         IN  IF j >= i + 2
             THEN SubSeq(s, 1, i - 1) \o SubSeq(s, j + 1, Len(s))
             ELSE s

\* re.sub(r"[^\w\s-]+", "", s)
re_sub_punctuation(s) ==
    JoinStr([i \in 1..Len(s) |->
                IF IsWord(Char(s, i)) \/ IsSpace(Char(s, i)) \/ Char(s, i) = "-"
                THEN Char(s, i) ELSE ""])

\* re.sub(r"[^A-Za-z]+", "-", s).split("-"): the maximal runs of letters and
\* an empty token at a separator that opens or closes the string
RECURSIVE LetterRuns(_)
LetterRuns(s) ==
    LET other == {i \in 1..Len(s) : ~IsLetter(Char(s, i))}
    IN  IF other = {} THEN <<s>>
        ELSE LET i == SetMin(other)
                 after == {k \in (i + 1)..Len(s) : IsLetter(Char(s, k))}
             IN  <<SubSeq(s, 1, i - 1)>> \o
                 (IF after = {} THEN <<"">>
                  ELSE LetterRuns(SubSeq(s, SetMin(after), Len(s))))

\* re.match(r"^[A-Z][a-z]{4,}$", token)
IsCapitalisedWord(token) ==
    /\ Len(token) >= 5
    /\ IsUpper(Char(token, 1))
    /\ \A i \in 2..Len(token) : IsLower(Char(token, i))

(***************************************************************************)
(* epinorm/geo.py : the address helpers.  A helper returns the exception   *)
(* it raises (exc) or the (name, id) pair; None is NoArg.                  *)
(***************************************************************************)
NoExc == ""

\* an int or None read from a reference table
Level(n) == [v |-> n]

Named(exc, name, id) == [exc |-> exc, name |-> name, id |-> id]

\* create_feature_id(entry["osm_type"], entry["osm_id"]) of an address component
ComponentId(entry) ==
    IF "osm_type" \notin DOMAIN entry \/ "osm_id" \notin DOMAIN entry
    THEN Named("KeyError", NoArg, NoArg)
    ELSE IF create_feature_id(entry).raised
    THEN Named("ValueError", NoArg, NoArg)
    ELSE Named(NoExc, entry.localname, create_feature_id(entry).id)

\* min(entries, key=...) gives the first entry whose key is the least
FirstMin(entries, key) ==
    LET least == {i \in 1..Len(entries) :
                    \A j \in 1..Len(entries) : entries[i][key] <= entries[j][key]}
    IN  entries[SetMin(least)]

\* get_locality without the window of ranks: the least rank of all wins
get_locality_NoWindow(detailed_address) ==
    IF ~IsList(detailed_address) THEN Named("TypeError", NoArg, NoArg)
    ELSE LET entries_rank_address ==
                 SelectSeq(detailed_address.items, LAMBDA e : "rank_address" \in DOMAIN e)
         IN  IF Len(entries_rank_address) = 0 THEN Named(NoExc, NoArg, NoArg)
             ELSE ComponentId(FirstMin(entries_rank_address, "rank_address"))

get_locality(detailed_address) ==
    IF ~IsList(detailed_address) THEN Named("TypeError", NoArg, NoArg)
    ELSE LET entries_rank_address ==
                 SelectSeq(detailed_address.items, LAMBDA e : "rank_address" \in DOMAIN e)
             entries_in_range ==
                 SelectSeq(entries_rank_address,
                           LAMBDA e : 13 <= e.rank_address /\ e.rank_address <= 25)
         IN  IF Len(entries_rank_address) = 0 THEN Named(NoExc, NoArg, NoArg)
             ELSE IF Len(entries_in_range) = 0 THEN Named(NoExc, NoArg, NoArg)
             ELSE ComponentId(FirstMin(entries_in_range, "rank_address"))

\* get_admin_level_1 that falls back to the least level when no component
\* has the level sought
get_admin_level_1_Fallback(address_details, admin_level_sought) ==
    IF ~IsList(address_details) THEN Named("TypeError", NoArg, NoArg)
    ELSE LET hits == {i \in 1..Len(address_details.items) :
                        /\ admin_level_sought # PyNone
                        /\ Get(address_details.items[i], "admin_level", -1)
                              = admin_level_sought.v}
             entires_admin_level ==
                 SelectSeq(address_details.items, LAMBDA e : "admin_level" \in DOMAIN e)
         IN  IF hits # {} THEN ComponentId(address_details.items[SetMin(hits)])
             ELSE IF Len(entires_admin_level) = 0 THEN Named(NoExc, NoArg, NoArg)
             ELSE ComponentId(FirstMin(entires_admin_level, "admin_level"))

get_admin_level_1(address_details, admin_level_sought) ==
    IF ~IsList(address_details) THEN Named("TypeError", NoArg, NoArg)
    ELSE IF admin_level_sought # PyNone
    THEN LET hits == {i \in 1..Len(address_details.items) :
                        Get(address_details.items[i], "admin_level", -1)
                            = admin_level_sought.v}
         IN  IF hits = {} THEN Named(NoExc, NoArg, NoArg)
             ELSE ComponentId(address_details.items[SetMin(hits)])
    ELSE LET entires_admin_level ==
                 SelectSeq(address_details.items, LAMBDA e : "admin_level" \in DOMAIN e)
         IN  IF Len(entires_admin_level) = 0 THEN Named(NoExc, NoArg, NoArg)
             ELSE ComponentId(FirstMin(entires_admin_level, "admin_level"))

get_country_name(address) ==
    IF ~IsList(address) THEN Named("TypeError", NoArg, NoArg)
    ELSE LET stops == {i \in 1..Len(address.items) :
                         \/ "type" \notin DOMAIN address.items[i]
                         \/ address.items[i].type = "country"}
         IN  IF stops = {} THEN Named(NoExc, NoArg, NoArg)
             ELSE IF "type" \notin DOMAIN address.items[SetMin(stops)]
             THEN Named("KeyError", NoArg, NoArg)
             ELSE Named(NoExc, address.items[SetMin(stops)].localname, NoArg)

(***************************************************************************)
(* itertools.permutations(seq, k): the arrangements of k positions of seq, *)
(* in lexicographic order of the positions.                                *)
(***************************************************************************)
RECURSIVE ConcatSeqs(_)
ConcatSeqs(seqs) == IF Len(seqs) = 0 THEN <<>> ELSE Head(seqs) \o ConcatSeqs(Tail(seqs))

Without(seq, i) == SubSeq(seq, 1, i - 1) \o SubSeq(seq, i + 1, Len(seq))

RECURSIVE itertools_permutations(_, _)
itertools_permutations(seq, k) ==
    IF k = 0 THEN << <<>> >>
    ELSE ConcatSeqs([i \in 1..Len(seq) |->
            LET rest == itertools_permutations(Without(seq, i), k - 1)
            IN  [j \in 1..Len(rest) |-> <<seq[i]>> \o rest[j]]])

(***************************************************************************)
(* epinorm/norm.py : the reference tables the handlers read.               *)
(***************************************************************************)
\* pandas reads the alpha_2 value "NA" of Namibia as NaN
NaN == "nan"

\* the (name, alpha_2) rows of the countries file followed by the entries of
\* COUNTRIES_EXCEPTIONS, in the order a dict built from them iterates
CountryRows ==
    << [name |-> "Viet Nam", alpha_2 |-> "VN"],
       [name |-> "France", alpha_2 |-> "FR"],
       [name |-> "Greece", alpha_2 |-> "GR"],
       [name |-> "Namibia", alpha_2 |-> NaN],
       [name |-> "Russia", alpha_2 |-> "RU"],
       [name |-> "Vietnam", alpha_2 |-> "VN"] >>

country_to_code ==
    [name \in {CountryRows[i].name : i \in 1..Len(CountryRows)} |->
        CountryRows[SetMax({i \in 1..Len(CountryRows) : CountryRows[i].name = name})].alpha_2]

\* { code: name for name, code in country_name_to_code.items() }: the last
\* name of a code wins
country_code_to_name ==
    [code \in {CountryRows[i].alpha_2 : i \in 1..Len(CountryRows)} |->
        CountryRows[SetMax({i \in 1..Len(CountryRows) : CountryRows[i].alpha_2 = code})].name]

NUTS_CODE_TO_COUNTRY_EXCEPTIONS == ("EL" :> "GR")

\* the policy table admin_level_1.csv, NaN cells replaced by None
admin_level_1_table ==
    << [country_code |-> "VN", nuts_level |-> PyNone, osm_level |-> Level(4)],
       [country_code |-> "FR", nuts_level |-> Level(1), osm_level |-> Level(4)],
       [country_code |-> "GR", nuts_level |-> Level(3), osm_level |-> Level(6)] >>

\* admin_level_1_table[admin_level_1_table["country_code"] == country_code];
\* NaN equals nothing
PolicyRows(country_code) ==
    SelectSeq(admin_level_1_table,
              LAMBDA row : country_code # NaN /\ row.country_code = country_code)

\* the gazetteer of administrative units per country code
code_to_admin ==
    ("VN" :> << [name |-> "dak lak province", admin_level |-> 4, osm_id |-> "1888"],
                [name |-> "Hanoi", admin_level |-> 4, osm_id |-> "1903"],
                [name |-> "Central Highlands", admin_level |-> 3, osm_id |-> "1777"] >>)

\* get_admin_levels_table(): country name -> administrative units
admin_levels_table ==
    [name \in DOMAIN country_to_code |->
        IF country_to_code[name] \in DOMAIN code_to_admin
        THEN code_to_admin[country_to_code[name]] ELSE <<>>]

\* get_nuts_to_coordinates() and get_nuts_to_admin_level_1()
nuts_to_coordinates ==
    ("FR101" :> [latitude |-> "48.85", longitude |-> "2.35"])
    @@ ("FRY10" :> [latitude |-> "16.2", longitude |-> "-61.56"])
nuts_to_admin_level_1 ==
    ("FR1" :> [name |-> "Ile-de-France", id |-> "8649"])
    @@ ("FRY1" :> [name |-> "Guadeloupe", id |-> "1401835"])

(***************************************************************************)
(* The remote service as one row sees it.  Every answer has status 200.    *)
(*   country  : the service finds a country by its name                    *)
(*   answered : the other search queries it finds a place for              *)
(*   reverse  : what /reverse answers for the row's coordinates            *)
(*   address  : what /details gives as "address": a list or null           *)
(***************************************************************************)
MaxAnswered == 1    \* search queries, besides the country's, that find a place

RemoteCountries ==
    ("viet nam" :> [name |-> "Vietnam", osm_id |-> 49915])
    @@ ("vietnam" :> [name |-> "Vietnam", osm_id |-> 49915])
    @@ ("namibia" :> [name |-> "Namibia", osm_id |-> 195266])
    @@ ("kosovo" :> [name |-> "Kosovo", osm_id |-> 2088990])
    @@ ("france" :> [name |-> "France", osm_id |-> 2202162])

CountryRaw(query) ==
    RawCore(RemoteCountries[str_lower(query)].name)
    @@ [osm_type |-> "relation", osm_id |-> RemoteCountries[str_lower(query)].osm_id,
        addresstype |-> "country"]

LocalityRaw ==
    RawCore("Buon Ho, Dak Lak Province, Vietnam")
    @@ [osm_type |-> "relation", osm_id |-> 7020, addresstype |-> "town"]

LocalityAddress ==
    PyList(<< [type |-> "town", localname |-> "Buon Ho", osm_type |-> "R",
               osm_id |-> 7020, rank_address |-> 16, admin_level |-> 6],
              [type |-> "state", localname |-> "Dak Lak Province", osm_type |-> "R",
               osm_id |-> 1888, rank_address |-> 8, admin_level |-> 4],
              [type |-> "country", localname |-> "Vietnam", osm_type |-> "R",
               osm_id |-> 49915, rank_address |-> 4, admin_level |-> 2] >>)

\* the place the service finds at the coordinates of a French NUTS region
FrenchRaw ==
    RawCore("Basse-Terre, Guadeloupe, France")
    @@ [osm_type |-> "relation", osm_id |-> 1401836, addresstype |-> "city"]

FrenchAddress ==
    PyList(<< [type |-> "city", localname |-> "Basse-Terre", osm_type |-> "R",
               osm_id |-> 1401836, rank_address |-> 16, admin_level |-> 8],
              [type |-> "state", localname |-> "Guadeloupe", osm_type |-> "R",
               osm_id |-> 1401835, rank_address |-> 8, admin_level |-> 4],
              [type |-> "country", localname |-> "France", osm_type |-> "R",
               osm_id |-> 2202162, rank_address |-> 4, admin_level |-> 2] >>)

\* the terms of the reverse searches made for the NUTS regions
NutsTerms ==
    {nuts_to_coordinates[c].latitude \o ", " \o nuts_to_coordinates[c].longitude :
        c \in DOMAIN nuts_to_coordinates}

CountryAddress(raw) ==
    PyList(<< [type |-> "country", localname |-> raw.display_name, osm_type |-> "R",
               osm_id |-> raw.osm_id, rank_address |-> 4, admin_level |-> 2] >>)

RemoteSearch(world, query) ==
    IF str_lower(query) \in DOMAIN RemoteCountries
    THEN Ok(PyList(IF world.country THEN <<CountryRaw(query)>> ELSE <<>>))
    ELSE Ok(PyList(IF query \in world.answered THEN <<LocalityRaw>> ELSE <<>>))

ReverseAnswers == {"place", "empty", "error"}

RemoteReverse(world, term) ==
    CASE world.reverse = "place" ->
             Ok(IF term \in NutsTerms THEN FrenchRaw ELSE LocalityRaw)
      [] world.reverse = "empty" -> Ok(EmptyDict)
      [] world.reverse = "error" -> Ok([error |-> "Unable to geocode"])

RemoteDetails(world, raw) ==
    Ok([address |->
           IF world.address = "null" THEN PyNone
           ELSE IF Get(raw, "addresstype", "") = "country" THEN CountryAddress(raw)
           ELSE IF raw = FrenchRaw THEN FrenchAddress
           ELSE LocalityAddress])

AddressKinds == {"list", "null"}

SubsetsUpTo(S, n) == {T \in SUBSET S : Cardinality(T) <= n}

(***************************************************************************)
(* A handler's row: the get_feature calls it makes one after the other,    *)
(* each against the tables the previous one left.                          *)
(***************************************************************************)
\* the state of a row: the tables, the calls made so far, the value the last
\* call returned and the exception that ended the row, if any
RowState(ft, fi, calls, ret, exc) ==
    [ft |-> ft, fi |-> fi, calls |-> calls, ret |-> ret, exc |-> exc]

Returned == {"cache", "no results", "remote source"}

\* the state of the row after a call that ended as r says
AfterCall(st, term, r) ==
    RowState(r.ft, r.fi,
             Append(st.calls, [term |-> term, outcome |-> r.outcome,
                               events |-> r.events]),
             r.ret,
             IF r.outcome \in Returned THEN NoExc ELSE r.outcome)

\* the first of the remote results, the one get_feature normalizes
FirstResult(api) == IF IsList(api.body) THEN api.body.items[1] ELSE api.body

\* the one row find_feature fetches for a term: the rows never index a term
\* twice
Fetched(candidates) ==
    IF candidates = {} THEN PyNone ELSE CHOOSE f \in candidates : TRUE

\* what the service answers to the request of a call
RemoteAnswer(world, method, term) ==
    IF method = "reverse" THEN RemoteReverse(world, term)
    ELSE RemoteSearch(world, term)

\* self._geocoder.get_feature(method, args, term=term, term_type=term_type)
Call(st, method, term, term_type, world) ==
    AfterCall(st, term,
        get_feature(st.ft, st.fi, method, NoArg, term, term_type,
                    Fetched(cache_find_feature(st.ft, st.fi, term)),
                    RemoteAnswer(world, method, term),
                    RemoteDetails(world, FirstResult(RemoteAnswer(world, method, term)))))

(***************************************************************************)
(* epinorm/norm.py : GenBankDataHandler.  A record is a row of the input   *)
(* with its original_location and pathogen_strain.                         *)
(***************************************************************************)
\* the six output columns of a row, initialised to None
EmptyOutput ==
    [country |-> NoArg, country_osm_id |-> NoArg,
     admin_level_1 |-> NoArg, admin_level_1_osm_id |-> NoArg,
     locality |-> NoArg, locality_osm_id |-> NoArg]

\* what a row's iteration of the loop leaves: the tables, the calls, the
\* output columns of the row and the exception that left the loop, if any
RowResult(st, output, exc) ==
    [ft |-> st.ft, fi |-> st.fi, calls |-> st.calls, output |-> output, exc |-> exc]

GenBank_compile_location(record) ==
    IF Contains(record.original_location, ":")
    THEN LET parts == str_split_once(record.original_location, ":")
         IN  [country |-> parts[1], areas |-> str_split(parts[2], ",")]
    ELSE [country |-> record.original_location, areas |-> <<>>]

GenBank_get_location_from_strain(record) ==
    LET tokens == LetterRuns(record.pathogen_strain)
        matches == {i \in 1..Len(tokens) : IsCapitalisedWord(tokens[i])}
    IN  IF matches = {} THEN NoArg ELSE tokens[SetMin(matches)]

clean_token(token) ==
    str_lower(str_strip(re_sub_punctuation(re_sub_parenthesised(
        str_replace(token, "_", " ")))))

InSeq(x, seq) == \E i \in 1..Len(seq) : seq[i] = x

RECURSIVE CleanPlaces(_, _, _)
\* the loop over places_to_clean, cleaned_places being the list built so far
CleanPlaces(places_to_clean, country, cleaned_places) ==
    IF Len(places_to_clean) = 0 THEN cleaned_places
    ELSE LET cleaned_place == clean_token(Head(places_to_clean))
         IN  CleanPlaces(Tail(places_to_clean), country,
                 IF cleaned_place # "" /\ cleaned_place # country
                    /\ ~InSeq(cleaned_place, cleaned_places)
                 THEN Append(cleaned_places, cleaned_place)
                 ELSE cleaned_places)

exception_mappings ==
    ("west siberia" :> "siberian federal district")
    @@ ("east siberia" :> "siberian federal district")

GenBank_format_location(description, extracted_location) ==
    LET country == clean_token(description.country)
        places_to_clean == IF Truthy(extracted_location)
                           THEN Append(description.areas, extracted_location)
                           ELSE description.areas
        cleaned_places == CleanPlaces(places_to_clean, country, <<>>)
    IN  [country |-> country,
         areas |-> [i \in 1..Len(cleaned_places) |->
                       IF cleaned_places[i] \in DOMAIN exception_mappings
                       THEN exception_mappings[cleaned_places[i]]
                       ELSE cleaned_places[i]]]

Reversed(seq) == [i \in 1..Len(seq) |-> seq[Len(seq) + 1 - i]]

\* the queries tried from the fixed text alone up to all the tokens
SearchQueries_ShortestFirst(areas, fixed_text) ==
    ConcatSeqs([d \in 1..(Len(areas) + 1) |->
        LET permutations == itertools_permutations(areas, d - 1)
        IN  [j \in 1..Len(permutations) |->
                str_join(", ", permutations[j]) \o ", " \o fixed_text]])

\* the queries of a search whose lengths stop at one token
SearchQueries_NoFixedTextOnly(areas, fixed_text) ==
    ConcatSeqs([d \in 1..Len(areas) |->
        LET permutations == itertools_permutations(areas, Len(areas) + 1 - d)
        IN  [j \in 1..Len(permutations) |->
                str_join(", ", permutations[j]) \o ", " \o fixed_text]])

\* the queries _search_tokens_diff_order tries, in the order it tries them
SearchQueries(areas, fixed_text) ==
    ConcatSeqs([d \in 1..(Len(areas) + 1) |->
        LET permutations == itertools_permutations(areas, Len(areas) + 1 - d)
        IN  [j \in 1..Len(permutations) |->
                str_join(", ", permutations[j]) \o ", " \o fixed_text]])

RECURSIVE SearchEach(_, _, _)
\* the loop from the point where the search of the first query has returned
SearchNext(locality, queries, world) ==
    IF locality.exc # NoExc \/ ~Falsy(locality.ret) THEN locality
    ELSE SearchEach(locality, Tail(queries), world)

SearchEach(st, queries, world) ==
    IF Len(queries) = 0 THEN RowState(st.ft, st.fi, st.calls, PyNone, NoExc)
    ELSE SearchNext(Call(st, "search", Head(queries), "query", world), queries, world)

GenBank_search_tokens_diff_order(st, areas, fixed_text, world) ==
    SearchEach(st, SearchQueries(areas, fixed_text), world)

\* the (name, id) pairs a helper found, written to the output columns when
\* the name is not None
WithLocality(st, found_locality, output) ==
    IF found_locality.exc # NoExc THEN RowResult(st, output, found_locality.exc)
    ELSE RowResult(st,
             IF found_locality.name # NoArg
             THEN [output EXCEPT !.locality = found_locality.name,
                                 !.locality_osm_id = found_locality.id]
             ELSE output,
             NoExc)

WithAdminLevel1(found, found_admin) ==
    IF found.exc # NoExc THEN found
    ELSE IF found_admin.exc # NoExc THEN [found EXCEPT !.exc = found_admin.exc]
    ELSE IF found_admin.name # NoArg
    THEN [found EXCEPT !.output.admin_level_1 = found_admin.name,
                       !.output.admin_level_1_osm_id = found_admin.id]
    ELSE found

\* _find_location_info from the point where the search has returned
LocationInfo(locality, admin_level_sought, output) ==
    IF locality.exc # NoExc THEN RowResult(locality, output, locality.exc)
    ELSE IF Falsy(locality.ret) THEN RowResult(locality, output, NoExc)
    ELSE WithAdminLevel1(
             WithLocality(locality,
                          get_locality(Get(locality.ret, "address", PyNone)), output),
             get_admin_level_1(Get(locality.ret, "address", PyNone),
                               admin_level_sought))

\* the row's output with the keys of the result of _find_location_info
GenBank_find_location_info(st, areas, fixed_text, admin_level_sought, world, output) ==
    LocationInfo(
        GenBank_search_tokens_diff_order(st, Reversed(areas), fixed_text, world),
        admin_level_sought, output)

RECURSIVE MatchAdminLevels_RemoveAll(_, _, _)
\* a matching pass that takes every occurrence of a found name out of the areas
MatchAdminLevels_RemoveAll(admin_levels, areas, admin_levels_found) ==
    IF Len(admin_levels) = 0 THEN [areas |-> areas, found |-> admin_levels_found]
    ELSE LET name == str_lower(Head(admin_levels).name)
         IN  IF InSeq(name, areas)
             THEN MatchAdminLevels_RemoveAll(Tail(admin_levels),
                      SelectSeq(areas, LAMBDA area : area # name),
                      Append(admin_levels_found, Head(admin_levels)))
             ELSE MatchAdminLevels_RemoveAll(Tail(admin_levels), areas,
                                             admin_levels_found)

RECURSIVE MatchAdminLevels(_, _, _)
\* the loop over admin_levels_table[country_name]: a unit whose lower-cased
\* name is among the areas is found and one occurrence of it leaves the areas
MatchAdminLevels(admin_levels, areas, admin_levels_found) ==
    IF Len(admin_levels) = 0 THEN [areas |-> areas, found |-> admin_levels_found]
    ELSE LET name == str_lower(Head(admin_levels).name)
         IN  IF InSeq(name, areas)
             THEN MatchAdminLevels(Tail(admin_levels),
                      Without(areas, SetMin({i \in 1..Len(areas) : areas[i] = name})),
                      Append(admin_levels_found, Head(admin_levels)))
             ELSE MatchAdminLevels(Tail(admin_levels), areas, admin_levels_found)

\* ", ".join(names of admin_levels_found) + ", " + country_name
FixedLocationText(admin_levels_found, country_name) ==
    str_join(", ", [i \in 1..Len(admin_levels_found) |-> admin_levels_found[i].name])
        \o ", " \o country_name

\* the search for the locality once admin level 1 is known, from the point
\* where the search has returned
FoundLocality(locality, output) ==
    IF locality.exc # NoExc THEN RowResult(locality, output, locality.exc)
    ELSE IF Falsy(locality.ret) THEN RowResult(locality, output, NoExc)
    ELSE WithLocality(locality,
                      get_locality(Get(locality.ret, "address", PyNone)), output)

\* a row that, once admin level 1 is taken from the match and no area is left,
\* takes the first of the other matched units as its locality
GenBank_geocode_matched_NextAsLocality(st, country_name, admin_level_1_sought, matched, world, output) ==
    LET sought == {i \in 1..Len(matched.found) :
                     admin_level_1_sought # PyNone
                     /\ matched.found[i].admin_level = admin_level_1_sought.v}
        others == {i \in 1..Len(matched.found) : i \notin sought}
    IN  IF Len(matched.found) = 0
        THEN GenBank_find_location_info(st, matched.areas, country_name,
                                        admin_level_1_sought, world, output)
        ELSE IF sought = {}
        THEN GenBank_find_location_info(st, matched.areas,
                 FixedLocationText(matched.found, country_name),
                 admin_level_1_sought, world, output)
        ELSE IF Len(matched.areas) = 0
        THEN RowResult(st,
                 [output EXCEPT
                     !.admin_level_1 = matched.found[SetMax(sought)].name,
                     !.admin_level_1_osm_id = matched.found[SetMax(sought)].osm_id,
                     !.locality = IF others = {} THEN NoArg
                                  ELSE matched.found[SetMin(others)].name,
                     !.locality_osm_id = IF others = {} THEN NoArg
                                         ELSE matched.found[SetMin(others)].osm_id],
                 NoExc)
        ELSE FoundLocality(
                 GenBank_search_tokens_diff_order(st, Reversed(matched.areas),
                     FixedLocationText(matched.found, country_name), world),
                 [output EXCEPT
                     !.admin_level_1 = matched.found[SetMax(sought)].name,
                     !.admin_level_1_osm_id = matched.found[SetMax(sought)].osm_id])

\* the row from the point where the tokens have been matched with the
\* administrative units of the country
GenBank_geocode_matched(st, country_name, admin_level_1_sought, matched, world, output) ==
    LET sought == {i \in 1..Len(matched.found) :
                     admin_level_1_sought # PyNone
                     /\ matched.found[i].admin_level = admin_level_1_sought.v}
    IN  IF Len(matched.found) = 0
        THEN GenBank_find_location_info(st, matched.areas, country_name,
                                        admin_level_1_sought, world, output)
        ELSE IF sought = {}
        THEN GenBank_find_location_info(st, matched.areas,
                 FixedLocationText(matched.found, country_name),
                 admin_level_1_sought, world, output)
        ELSE IF Len(matched.areas) = 0
        THEN RowResult(st,
                 [output EXCEPT
                     !.admin_level_1 = matched.found[SetMax(sought)].name,
                     !.admin_level_1_osm_id = matched.found[SetMax(sought)].osm_id],
                 NoExc)
        ELSE FoundLocality(
                 GenBank_search_tokens_diff_order(st, Reversed(matched.areas),
                     FixedLocationText(matched.found, country_name), world),
                 [output EXCEPT
                     !.admin_level_1 = matched.found[SetMax(sought)].name,
                     !.admin_level_1_osm_id = matched.found[SetMax(sought)].osm_id])

\* the row from the point where the country search has returned a feature
GenBank_geocode_areas(st, location, location_country, world) ==
    LET country_name == Get(location_country, "name", NoArg)
        output == [EmptyOutput EXCEPT !.country = Get(location_country, "name", NoArg),
                                      !.country_osm_id = Get(location_country, "id", NoArg)]
    IN  IF Len(location.areas) = 0 THEN RowResult(st, output, NoExc)
        ELSE IF country_name \notin DOMAIN country_to_code
        THEN RowResult(st, output, NoExc)
        ELSE IF Len(PolicyRows(country_to_code[country_name])) = 0
        THEN RowResult(st, output, "IndexError")
        ELSE GenBank_geocode_matched(st, country_name,
                 PolicyRows(country_to_code[country_name])[1].osm_level,
                 MatchAdminLevels(
                     IF country_name \in DOMAIN admin_levels_table
                     THEN admin_levels_table[country_name] ELSE <<>>,
                     location.areas, <<>>),
                 world, output)

\* _add_source_details and the head of _geocode: the columns
\* original_record_location_description, extracted_location and location
GenBank_add_columns(record) ==
    [original_location |-> record.original_location,
     pathogen_strain |-> record.pathogen_strain,
     original_record_location_description |-> GenBank_compile_location(record),
     extracted_location |-> GenBank_get_location_from_strain(record),
     location |-> GenBank_format_location(GenBank_compile_location(record),
                                          GenBank_get_location_from_strain(record))]

\* a row that goes on to search the areas when the country search found
\* nothing, taking the country text as the country's name
GenBank_geocode_country_SearchOn(location_country, location, world) ==
    IF location_country.exc # NoExc
    THEN RowResult(location_country, EmptyOutput, location_country.exc)
    ELSE IF Falsy(location_country.ret)
    THEN GenBank_find_location_info(location_country, location.areas,
             location.country, PyNone, world, EmptyOutput)
    ELSE GenBank_geocode_areas(location_country, location,
                               location_country.ret, world)

\* the row from the point where the country search has returned
GenBank_geocode_country(location_country, location, world) ==
    IF location_country.exc # NoExc
    THEN RowResult(location_country, EmptyOutput, location_country.exc)
    ELSE IF Falsy(location_country.ret)
    THEN RowResult(location_country, EmptyOutput, NoExc)
    ELSE GenBank_geocode_areas(location_country, location,
                               location_country.ret, world)

\* one iteration of the loop of GenBankDataHandler._geocode
GenBank_geocode(ft, fi, row, world) ==
    IF row.location.country = NoArg
    THEN RowResult(RowState(ft, fi, <<>>, PyNone, NoExc), EmptyOutput, NoExc)
    ELSE GenBank_geocode_country(
             Call(RowState(ft, fi, <<>>, PyNone, NoExc),
                  "search", row.location.country, "query", world),
             row.location, world)

(***************************************************************************)
(* epinorm/norm.py : EmpresiDataHandler.  A record holds the latitude and  *)
(* longitude columns as they are formatted in the term; NaN is a missing   *)
(* value.                                                                  *)
(***************************************************************************)
\* names and ids written to the output columns whether they are None or not
AssignLocality(output, found) ==
    [output EXCEPT !.locality = found.name, !.locality_osm_id = found.id]

AssignAdminLevel1(st, found_admin, output) ==
    IF found_admin.exc # NoExc THEN RowResult(st, output, found_admin.exc)
    ELSE RowResult(st,
             [output EXCEPT !.admin_level_1 = found_admin.name,
                            !.admin_level_1_osm_id = found_admin.id],
             NoExc)

\* the row from the point where the locality of the address is known
Empresi_geocode_admin(st, address, country_name, found_locality, output) ==
    IF found_locality.exc # NoExc THEN RowResult(st, output, found_locality.exc)
    ELSE IF country_name \notin DOMAIN country_to_code
    THEN RowResult(st, AssignLocality(output, found_locality), NoExc)
    ELSE IF Len(PolicyRows(country_to_code[country_name])) = 0
    THEN RowResult(st, AssignLocality(output, found_locality), "IndexError")
    ELSE AssignAdminLevel1(st,
             get_admin_level_1(address,
                 PolicyRows(country_to_code[country_name])[1].osm_level),
             AssignLocality(output, found_locality))

\* the row from the point where the search for the country has returned
Empresi_geocode_country(location_country, address, country_name) ==
    IF location_country.exc # NoExc
    THEN RowResult(location_country, EmptyOutput, location_country.exc)
    ELSE IF Falsy(location_country.ret)
    THEN RowResult(location_country, EmptyOutput, NoExc)
    ELSE Empresi_geocode_admin(location_country, address, country_name,
             get_locality(address),
             [EmptyOutput EXCEPT
                 !.country = country_name,
                 !.country_osm_id = Get(location_country.ret, "id", NoArg)])

\* the row from the point where the country name of the address is known
Empresi_geocode_country_name(locality, address, country, world) ==
    IF country.exc # NoExc THEN RowResult(locality, EmptyOutput, country.exc)
    ELSE IF country.name = NoArg THEN RowResult(locality, EmptyOutput, NoExc)
    ELSE Empresi_geocode_country(
             Call(locality, "search", country.name, "query", world),
             address, country.name)

\* the row from the point where the reverse search has returned
Empresi_geocode_locality(locality, world) ==
    IF locality.exc # NoExc THEN RowResult(locality, EmptyOutput, locality.exc)
    ELSE IF Falsy(locality.ret) THEN RowResult(locality, EmptyOutput, NoExc)
    ELSE Empresi_geocode_country_name(locality,
             Get(locality.ret, "address", PyNone),
             get_country_name(Get(locality.ret, "address", PyNone)), world)

\* one iteration of the loop of EmpresiDataHandler._geocode
Empresi_geocode(ft, fi, record, world) ==
    IF record.latitude = NaN \/ record.longitude = NaN
    THEN RowResult(RowState(ft, fi, <<>>, PyNone, NoExc), EmptyOutput, NoExc)
    ELSE Empresi_geocode_locality(
             Call(RowState(ft, fi, <<>>, PyNone, NoExc), "reverse",
                  record.latitude \o ", " \o record.longitude, "coordinate", world),
             world)

(***************************************************************************)
(* epinorm/norm.py : ECDCDataHandler.  A record holds the location column: *)
(* a NUTS code or None.                                                    *)
(***************************************************************************)
\* a country branch that writes the country's name and not its id
ECDC_geocode_country_found_NameOnly(location_country) ==
    IF location_country.exc # NoExc
    THEN RowResult(location_country, EmptyOutput, location_country.exc)
    ELSE IF Falsy(location_country.ret)
    THEN RowResult(location_country, EmptyOutput, NoExc)
    ELSE RowResult(location_country,
             [EmptyOutput EXCEPT
                 !.country = Get(location_country.ret, "name", NoArg)],
             NoExc)

\* the country branch from the point where the search has returned
ECDC_geocode_country_found(location_country) ==
    IF location_country.exc # NoExc
    THEN RowResult(location_country, EmptyOutput, location_country.exc)
    ELSE IF Falsy(location_country.ret)
    THEN RowResult(location_country, EmptyOutput, NoExc)
    ELSE RowResult(location_country,
             [EmptyOutput EXCEPT
                 !.country = Get(location_country.ret, "name", NoArg),
                 !.country_osm_id = Get(location_country.ret, "id", NoArg)],
             NoExc)

\* the branch of a NUTS code that has no coordinates
ECDC_geocode_country(start, nuts_code, world) ==
    LET country_code == IF nuts_code \in DOMAIN NUTS_CODE_TO_COUNTRY_EXCEPTIONS
                        THEN NUTS_CODE_TO_COUNTRY_EXCEPTIONS[nuts_code]
                        ELSE nuts_code
    IN  IF Len(nuts_code) # 2 THEN RowResult(start, EmptyOutput, NoExc)
        ELSE IF country_code \notin DOMAIN country_code_to_name
        THEN RowResult(start, EmptyOutput, NoExc)
        ELSE ECDC_geocode_country_found(
                 Call(start, "search", country_code_to_name[country_code],
                      "query", world))

\* the NUTS code cut to the level sought
NutsCodeSought(nuts_code, nuts_level_sought) ==
    IF nuts_level_sought # PyNone /\ Len(nuts_code) > nuts_level_sought.v + 2
    THEN SubSeq(nuts_code, 1, nuts_level_sought.v + 2)
    ELSE nuts_code

\* the row from the point where the policy of the country is known
ECDC_geocode_admin(st, address, policy, nuts_code, output) ==
    IF policy.nuts_level # PyNone /\ Len(nuts_code) < policy.nuts_level.v + 2
    THEN RowResult(st, output, NoExc)
    ELSE IF NutsCodeSought(nuts_code, policy.nuts_level) \in DOMAIN nuts_to_admin_level_1
    THEN RowResult(st,
             [output EXCEPT
                 !.admin_level_1 =
                     nuts_to_admin_level_1[NutsCodeSought(nuts_code, policy.nuts_level)].name,
                 !.admin_level_1_osm_id =
                     nuts_to_admin_level_1[NutsCodeSought(nuts_code, policy.nuts_level)].id],
             NoExc)
    ELSE AssignAdminLevel1(st, get_admin_level_1(address, policy.osm_level), output)

\* the row from the point where the search for the country has returned
ECDC_geocode_policy(locality_country, address, country_name, nuts_code) ==
    IF locality_country.exc # NoExc
    THEN RowResult(locality_country, [EmptyOutput EXCEPT !.country = country_name],
                   locality_country.exc)
    ELSE IF Falsy(locality_country.ret)
    THEN RowResult(locality_country, [EmptyOutput EXCEPT !.country = country_name],
                   NoExc)
    ELSE IF Len(PolicyRows(country_to_code[country_name])) = 0
    THEN RowResult(locality_country,
             [EmptyOutput EXCEPT !.country = country_name,
                                 !.country_osm_id = locality_country.ret.id],
             "IndexError")
    ELSE ECDC_geocode_admin(locality_country, address,
             PolicyRows(country_to_code[country_name])[1], nuts_code,
             [EmptyOutput EXCEPT !.country = country_name,
                                 !.country_osm_id = locality_country.ret.id])

\* the row from the point where the country name of the address is known
ECDC_geocode_country_name(locality_NUTS, address, country, nuts_code, world) ==
    IF country.exc # NoExc THEN RowResult(locality_NUTS, EmptyOutput, country.exc)
    ELSE IF country.name = NoArg THEN RowResult(locality_NUTS, EmptyOutput, NoExc)
    ELSE IF country.name \notin DOMAIN country_to_code
    THEN RowResult(locality_NUTS, [EmptyOutput EXCEPT !.country = country.name],
                   "KeyError")
    ELSE ECDC_geocode_policy(
             Call(locality_NUTS, "search", country.name, "query", world),
             address, country.name, nuts_code)

\* the row from the point where the reverse search has returned
ECDC_geocode_locality(locality_NUTS, nuts_code, world) ==
    IF locality_NUTS.exc # NoExc
    THEN RowResult(locality_NUTS, EmptyOutput, locality_NUTS.exc)
    ELSE IF Falsy(locality_NUTS.ret) THEN RowResult(locality_NUTS, EmptyOutput, NoExc)
    ELSE ECDC_geocode_country_name(locality_NUTS, locality_NUTS.ret.address,
             get_country_name(locality_NUTS.ret.address), nuts_code, world)

\* one iteration of the loop of ECDCDataHandler._geocode
ECDC_geocode(ft, fi, record, world) ==
    IF record.location = NoArg
    THEN RowResult(RowState(ft, fi, <<>>, PyNone, NoExc), EmptyOutput, NoExc)
    ELSE IF record.location \notin DOMAIN nuts_to_coordinates
    THEN ECDC_geocode_country(RowState(ft, fi, <<>>, PyNone, NoExc),
                              record.location, world)
    ELSE ECDC_geocode_locality(
             Call(RowState(ft, fi, <<>>, PyNone, NoExc), "reverse",
                  nuts_to_coordinates[record.location].latitude \o ", "
                      \o nuts_to_coordinates[record.location].longitude,
                  "coordinate", world),
             record.location, world)

(***************************************************************************)
(* Specification SpecNorm: the handlers' geocoding loops.  Each step is    *)
(* one row of one source, processed against the cache store the rows       *)
(* before it left.                                                         *)
(***************************************************************************)
MaxRows == 2        \* rows processed against one cache store

GenBankRecord(original_location, pathogen_strain) ==
    [original_location |-> original_location, pathogen_strain |-> pathogen_strain]

GenBankRecords ==
    { GenBankRecord("Viet Nam: Dak Lak Province, Buon Ho", "A/H5N1"),
      GenBankRecord("Viet Nam", "A/H5N1"),
      GenBankRecord("Viet Nam: Buon Ho (town)", "A/duck/Hanoi/1/2020"),
      GenBankRecord("Viet Nam: Central Highlands, Buon Ho", "A/H5N1"),
      GenBankRecord("Viet Nam: Buon Ho, Ea_Drong", "A/H5N1"),
      GenBankRecord("Viet Nam: Krong Buk, Buon Ho, Ea Drong", "A/H5N1"),
      GenBankRecord("Viet Nam: Dak Lak Province, Central Highlands", "A/H5N1"),
      GenBankRecord("Viet Nam: Dak Lak Province, Hanoi", "A/H5N1"),
      GenBankRecord("Namibia: Windhoek", "A/H5N1"),
      GenBankRecord("Kosovo: Pristina", "A/H5N1") }

EmpresiRecords ==
    { [latitude |-> "12.92", longitude |-> "108.27"],
      [latitude |-> NaN, longitude |-> NaN] }

ECDCRecords == { [location |-> c] : c \in {NoArg, "FR", "EL", "XX", "FR101", "FRY10", "FRZZZ"} }

\* a service that finds the countries and nothing else
KnowsCountries ==
    [country |-> TRUE, answered |-> {}, reverse |-> "empty", address |-> "null"]

\* the rows of the GenBank input, with the columns added before the loop
GenBankRows == {GenBank_add_columns(record) : record \in GenBankRecords}

\* the queries a GenBank row tries after its country search
CandidateQueries(row) ==
    LET calls == GenBank_geocode({}, {}, row, KnowsCountries).calls
    IN  {calls[i].term : i \in 2..Len(calls)}

\* a query the service knows a place for although no row asks it this way
OtherQueries == {"Buon Ho, Dak Lak Province, Viet Nam"}

SearchWorlds(queries) ==
    { [country |-> c, answered |-> a, reverse |-> "empty", address |-> k] :
        c \in BOOLEAN, a \in SubsetsUpTo(queries, MaxAnswered), k \in AddressKinds }

ReverseWorlds ==
    { [country |-> c, answered |-> {}, reverse |-> r, address |-> k] :
        c \in BOOLEAN, r \in ReverseAnswers, k \in AddressKinds }

RowsDone == Get(last, "n", 0)

Row(op, record, world, r) ==
    /\ feature_table' = r.ft
    /\ feature_index' = r.fi
    /\ last' = [op |-> op, n |-> RowsDone + 1, record |-> record, world |-> world,
                output |-> r.output, exc |-> r.exc, calls |-> r.calls]
    /\ UNCHANGED requested

\* the rows of the GenBank input, each with a service it may meet
GenBankCases ==
    UNION { { <<row, world>> :
                world \in SearchWorlds(CandidateQueries(row) \cup OtherQueries) } :
            row \in GenBankRows }

GenBankRow ==
    /\ RowsDone < MaxRows
    /\ \E case \in GenBankCases :
          Row("GenBank", case[1], case[2],
              GenBank_geocode(feature_table, feature_index, case[1], case[2]))

EmpresiRow ==
    /\ RowsDone < MaxRows
    /\ \E record \in EmpresiRecords, world \in ReverseWorlds :
          Row("Empresi", record, world,
              Empresi_geocode(feature_table, feature_index, record, world))

ECDCRow ==
    /\ RowsDone < MaxRows
    /\ \E record \in ECDCRecords, world \in ReverseWorlds :
          Row("ECDC", record, world,
              ECDC_geocode(feature_table, feature_index, record, world))

NextNorm == GenBankRow \/ EmpresiRow \/ ECDCRow

SpecNorm == Init /\ [][NextNorm]_geoVars

(***************************************************************************)
(* Claims about the handlers' geocoding loops.                             *)
(***************************************************************************)
IsRow(l) == l.op \in {"GenBank", "Empresi", "ECDC"}

\* C8: a row of any of the three sources, met with successful remote answers
\* of any kind, never leaves the geocoding loop with an exception.
C8_RowFailuresNeverAbort == IsRow(last) => last.exc = NoExc

\* C9: when the search on a GenBank row's country text returns no result, the
\* row's six output columns stay empty, no exception is raised and the row
\* makes no other call to the geocoder.
C9_NoCountryResultStopsRow ==
    (last.op = "GenBank" /\ Len(last.calls) > 0
        /\ last.calls[1].outcome = "no results")
    => /\ last.output = EmptyOutput
       /\ last.exc = NoExc
       /\ Len(last.calls) = 1

\* the country of a row with two areas was not found, by a service that
\* knows a place for the first query the row would have tried next
C9_Witness ==
    /\ last.op = "GenBank"
    /\ last.calls[1].outcome = "no results"
    /\ Requests(last.calls[1].events) # {}
    /\ Len(last.record.location.areas) = 2
    /\ last.world.answered = {"buon ho, dak lak province, Vietnam"}

ScenarioA_Text == "Viet Nam: Dak Lak Province, Buon Ho"
ScenarioA_Query == "Buon Ho, Dak Lak Province, Viet Nam"

\* the gazetteer entry and the policy level of scenario A
ScenarioA_Tables ==
    /\ \E i \in 1..Len(admin_levels_table["Vietnam"]) :
          /\ admin_levels_table["Vietnam"][i].name = "dak lak province"
          /\ admin_levels_table["Vietnam"][i].admin_level = 4
    /\ PolicyRows(country_to_code["Vietnam"])[1].osm_level = Level(4)

\* C10: the row "Viet Nam: Dak Lak Province, Buon Ho", processed on an empty
\* cache with the gazetteer entry and the policy level of scenario A while the
\* service finds a place for the query "Buon Ho, Dak Lak Province, Viet Nam"
\* and for no other query but the country's, gets admin_level_1 "Dak Lak
\* Province" and the name of the place found as its locality.
C10_ScenarioA ==
    (last.op = "GenBank" /\ last.n = 1 /\ ScenarioA_Tables
        /\ last.record.original_location = ScenarioA_Text
        /\ last.world.answered = {ScenarioA_Query})
    => /\ last.output.admin_level_1 = "Dak Lak Province"
       /\ last.output.locality = LocalityRaw.display_name

(***************************************************************************)
(* epinorm/norm.py : get_admin_levels_table, the gazetteer builder.  A row *)
(* of the administrative units file holds the country code, the exonym and *)
(* the endonym (a str, or NaN for an empty cell), the admin level and the  *)
(* OSM id.  What the transliterate package makes of the endonym is part of *)
(* the row: `translit` is the text it returns, or NoArg when it raises     *)
(* LanguageDetectionError, and `soft_sign` says whether the endonym holds  *)
(* the Cyrillic soft sign.                                                 *)
(***************************************************************************)
\* an endonym in Cyrillic script, which a TLA+ string cannot spell
CyrillicEndonym == "<ru>"

GazetteerEntry(name, row) ==
    [name |-> name, admin_level |-> row.admin_level, osm_id |-> row.osm_id]

get_transliterated_endonym(row) ==
    IF row.translit = NoArg THEN <<>>
    ELSE << GazetteerEntry(
                IF row.soft_sign /\ Contains(row.translit, "'")
                THEN str_replace(row.translit, "'", "")
                ELSE row.translit,
                row) >>

\* the modifiers that may be replaced, in the order the dict iterates
replacements ==
    << [original |-> "Oblast", synonym |-> "Region"],
       [original |-> "Krai", synonym |-> "Region"] >>

\* \b holds before position i of s: exactly one of the characters on its
\* two sides is a word character
WordBoundary(s, i) ==
    (i > 1 /\ IsWord(Char(s, i - 1))) # (i <= Len(s) /\ IsWord(Char(s, i)))

\* the pattern \bword\b matches s from position i on
MatchesWordAt(s, word, i) ==
    /\ i + Len(word) - 1 <= Len(s)
    /\ SubSeq(s, i, i + Len(word) - 1) = word
    /\ WordBoundary(s, i)
    /\ WordBoundary(s, i + Len(word))

\* re.match(pattern, s): the pattern has to match at the start of s
re_match_word(word, s) == MatchesWordAt(s, word, 1)

RECURSIVE re_sub_word(_, _, _)
\* re.sub(pattern, synonym, s): every match is replaced, left to right
re_sub_word(word, synonym, s) ==
    LET hits == {i \in 1..Len(s) : MatchesWordAt(s, word, i)}
    IN  IF hits = {} THEN s
        ELSE SubSeq(s, 1, SetMin(hits) - 1) \o synonym
             \o re_sub_word(word, synonym,
                            SubSeq(s, SetMin(hits) + Len(word), Len(s)))

\* the entries of one row before the synonyms are added
NewEntries(row) ==
    (IF row.exonym # NaN THEN <<GazetteerEntry(row.exonym, row)>> ELSE <<>>)
    \o (IF row.endonym # NaN
        THEN <<GazetteerEntry(row.endonym, row)>> \o get_transliterated_endonym(row)
        ELSE <<>>)

\* the synonym entries of one entry, one per replacement that matches
EntrySynonyms(entry) ==
    ConcatSeqs([k \in 1..Len(replacements) |->
        IF re_match_word(replacements[k].original, entry.name)
        THEN << [entry EXCEPT !.name = re_sub_word(replacements[k].original,
                                                   replacements[k].synonym,
                                                   entry.name)] >>
        ELSE <<>>])

NewEntriesSynonyms(new_entries) ==
    ConcatSeqs([k \in 1..Len(new_entries) |-> EntrySynonyms(new_entries[k])])

\* what one row adds to code_to_admin[country_code]
RowEntries(row) == NewEntries(row) \o NewEntriesSynonyms(NewEntries(row))

\* code_to_admin of a units file: groupby keeps the rows of a code in the
\* order of the file
CodeToAdmin(admin_units) ==
    [code \in {admin_units[i].iso3166_1_code : i \in 1..Len(admin_units)} |->
        ConcatSeqs([i \in 1..Len(admin_units) |->
            IF admin_units[i].iso3166_1_code = code
            THEN RowEntries(admin_units[i]) ELSE <<>>])]

get_admin_levels_table(admin_units) ==
    [name \in DOMAIN country_to_code |->
        IF country_to_code[name] \in DOMAIN CodeToAdmin(admin_units)
        THEN CodeToAdmin(admin_units)[country_to_code[name]] ELSE <<>>]

(***************************************************************************)
(* Specification SpecGazetteer: get_admin_levels_table applied to a units  *)
(* file of at most MaxUnits rows.                                          *)
(***************************************************************************)
MaxUnits == 2       \* rows of the administrative units file

UnitNames ==
    { [exonym |-> x, endonym |-> e.endonym, translit |-> e.translit,
       soft_sign |-> e.soft_sign] :
        x \in {NaN, "Amur Oblast", "Oblastville", "Oblast of Amur", "Altai Krai"},
        e \in { [endonym |-> NaN, translit |-> NoArg, soft_sign |-> FALSE],
                [endonym |-> "Krai Altai", translit |-> NoArg, soft_sign |-> FALSE],
                [endonym |-> CyrillicEndonym, translit |-> "Oblast' Amur",
                 soft_sign |-> TRUE],
                [endonym |-> CyrillicEndonym, translit |-> "Amurskaja Oblast",
                 soft_sign |-> FALSE] } }

UnitRows ==
    { n @@ [iso3166_1_code |-> c.code, admin_level |-> c.admin_level,
            osm_id |-> c.osm_id] :
        n \in UnitNames,
        c \in { [code |-> "RU", admin_level |-> 4, osm_id |-> "147166"],
                [code |-> "VN", admin_level |-> 6, osm_id |-> "1903"] } }

UnitsFiles ==
    UNION { [1..n -> UnitRows] : n \in 1..MaxUnits }

InitGazetteer ==
    /\ feature_table = {}
    /\ feature_index = {}
    /\ requested = {}
    /\ last \in { [op |-> "administrative_units", admin_units |-> f] :
                    f \in UnitsFiles }

GetAdminLevelsTable ==
    /\ last.op = "administrative_units"
    /\ last' = [op |-> "get_admin_levels_table", admin_units |-> last.admin_units,
                country_to_admin |-> get_admin_levels_table(last.admin_units)]
    /\ UNCHANGED <<feature_table, feature_index, requested>>

NextGazetteer == GetAdminLevelsTable

SpecGazetteer == InitGazetteer /\ [][NextGazetteer]_geoVars

(***************************************************************************)
(* create_admin_level_1_table.py : the builder of the policy table         *)
(* admin_level_1.csv.  A cell that is never written holds NaN, which the   *)
(* handlers read back as None.                                             *)
(***************************************************************************)
Override(nuts_level, osm_level) == [nuts_level |-> nuts_level, osm_level |-> osm_level]

ADMIN_LEVEL_1_EXCEPTIONS ==
    ("FR" :> Override(Level(1), Level(4)))
    @@ ("NL" :> Override(Level(2), Level(4)))
    @@ ("DK" :> Override(Level(2), Level(4)))
    @@ ("AT" :> Override(Level(2), Level(4)))
    @@ ("PL" :> Override(Level(2), Level(4)))
    @@ ("CY" :> Override(Level(4), Level(3)))
    @@ ("MT" :> Override(Level(4), Level(4)))
    @@ ("LU" :> Override(Level(4), Level(6)))
    @@ ("PT" :> Override(Level(3), Level(6)))
    @@ ("EE" :> Override(Level(3), Level(6)))
    @@ ("IE" :> Override(Level(3), Level(5)))
    @@ ("GR" :> Override(Level(3), Level(6)))
    @@ ("LV" :> Override(Level(3), Level(4)))
    @@ ("CN" :> Override(PyNone, Level(4)))

PolicyRow(country_code, nuts_level, osm_level) ==
    [country_code |-> country_code, nuts_level |-> nuts_level, osm_level |-> osm_level]

\* admin_units[admin_units["iso3166_1_code"] == country_code]
UnitsOfCountry(admin_units, country_code) ==
    SelectSeq(admin_units, LAMBDA row : row.iso3166_1_code = country_code)

\* the rows whose nuts_code is set and has five characters
RowsWithNutsCodeLevel(admin_units_country) ==
    SelectSeq(admin_units_country,
              LAMBDA row : row.nuts_code # NaN /\ Len(row.nuts_code) = 5)

AdminLevels(rows) == {rows[i].admin_level : i \in 1..Len(rows)}

\* the row of a country that is in no exception: the less precise level wins
\* in the NUTS branch too
PolicyOf_MinLevel(country_code, countries_with_nuts, admin_units) ==
    IF country_code \in countries_with_nuts
    THEN IF Len(RowsWithNutsCodeLevel(UnitsOfCountry(admin_units, country_code))) = 0
         THEN PolicyRow(country_code, Level(3), PyNone)
         ELSE PolicyRow(country_code, Level(3),
                  Level(SetMin(AdminLevels(RowsWithNutsCodeLevel(
                      UnitsOfCountry(admin_units, country_code))))))
    ELSE IF Len(UnitsOfCountry(admin_units, country_code)) = 0
         THEN PolicyRow(country_code, PyNone, PyNone)
         ELSE PolicyRow(country_code, PyNone,
                  Level(SetMin(AdminLevels(UnitsOfCountry(admin_units, country_code)))))

\* the row of a country that is in no exception
PolicyOf(country_code, countries_with_nuts, admin_units) ==
    IF country_code \in countries_with_nuts
    THEN IF Len(RowsWithNutsCodeLevel(UnitsOfCountry(admin_units, country_code))) = 0
         THEN PolicyRow(country_code, Level(3), PyNone)
         ELSE PolicyRow(country_code, Level(3),
                  Level(SetMax(AdminLevels(RowsWithNutsCodeLevel(
                      UnitsOfCountry(admin_units, country_code))))))
    ELSE IF Len(UnitsOfCountry(admin_units, country_code)) = 0
         THEN PolicyRow(country_code, PyNone, PyNone)
         ELSE PolicyRow(country_code, PyNone,
                  Level(SetMin(AdminLevels(UnitsOfCountry(admin_units, country_code)))))

\* one iteration of the loop of main, with the exceptions looked at only for
\* the countries without NUTS codes
create_admin_level_1_row_ExceptionsLast(country_code, countries_with_nuts, admin_units) ==
    IF country_code \notin countries_with_nuts
            /\ country_code \in DOMAIN ADMIN_LEVEL_1_EXCEPTIONS
    THEN PolicyRow(country_code,
                   ADMIN_LEVEL_1_EXCEPTIONS[country_code].nuts_level,
                   ADMIN_LEVEL_1_EXCEPTIONS[country_code].osm_level)
    ELSE PolicyOf(country_code, countries_with_nuts, admin_units)

\* one iteration of the loop of main
create_admin_level_1_row(country_code, countries_with_nuts, admin_units) ==
    IF country_code \in DOMAIN ADMIN_LEVEL_1_EXCEPTIONS
    THEN PolicyRow(country_code,
                   ADMIN_LEVEL_1_EXCEPTIONS[country_code].nuts_level,
                   ADMIN_LEVEL_1_EXCEPTIONS[country_code].osm_level)
    ELSE PolicyOf(country_code, countries_with_nuts, admin_units)

\* main(): one row per country code of the countries file
create_admin_level_1_table(countries, nuts_2024, admin_units) ==
    [i \in 1..Len(countries) |->
        create_admin_level_1_row(countries[i], nuts_2024 \cup {"GR"}, admin_units)]

(***************************************************************************)
(* Specification SpecPolicy: the builder applied to a countries file, the  *)
(* country codes of the NUTS file and a units file of at most              *)
(* MaxPolicyUnits rows.                                                    *)
(***************************************************************************)
MaxPolicyUnits == 2     \* rows of the administrative units file

\* the non-null alpha_2 values of the countries file
PolicyCountries == <<"DE", "FR", "GR", "CN", "VN">>

\* the country codes the NUTS file may hold
NutsCountryCodes == {"DE", "FR", "EL"}

\* the NUTS codes of a country's units: none, or one of level 1, 2 or 3
NutsCodesOf(country_code) ==
    {NaN, country_code \o "1", country_code \o "12", country_code \o "123"}

PolicyUnitRows ==
    UNION { { [iso3166_1_code |-> c, nuts_code |-> n, admin_level |-> a] :
                n \in NutsCodesOf(c), a \in {4, 6} } :
            c \in {"DE", "FR", "GR", "VN"} }

PolicyUnitsFiles ==
    UNION { [1..n -> PolicyUnitRows] : n \in 0..MaxPolicyUnits }

InitPolicy ==
    /\ feature_table = {}
    /\ feature_index = {}
    /\ requested = {}
    /\ last \in { [op |-> "reference data", nuts_2024 |-> s, admin_units |-> f] :
                    s \in SUBSET NutsCountryCodes, f \in PolicyUnitsFiles }

CreateAdminLevel1Table ==
    /\ last.op = "reference data"
    /\ last' = [op |-> "create_admin_level_1_table",
                nuts_2024 |-> last.nuts_2024, admin_units |-> last.admin_units,
                df |-> create_admin_level_1_table(PolicyCountries, last.nuts_2024,
                                                  last.admin_units)]
    /\ UNCHANGED <<feature_table, feature_index, requested>>

NextPolicy == CreateAdminLevel1Table

SpecPolicy == InitPolicy /\ [][NextPolicy]_geoVars

(***************************************************************************)
(* Specification SpecNormalize: normalize_feature applied to one raw       *)
(* result and the answer of the /details request it makes.                 *)
(***************************************************************************)
\* the element types a raw result may carry; NoArg stands for a result
\* without the key
RawOsmTypes == {"node", "way", "relation", "N", "W", "R", "bogus", "r", "", NoArg}

NormalizeRaws ==
    { RawCore("A")
      @@ (IF t = NoArg THEN << >> ELSE [osm_type |-> t])
      @@ (IF n = 0 THEN << >> ELSE [osm_id |-> n]) :
        t \in RawOsmTypes, n \in 0..MaxOsmId }

InitNormalize ==
    /\ feature_table = {}
    /\ feature_index = {}
    /\ requested = {}
    /\ last \in { [op |-> "raw", raw |-> r, details |-> d] :
                    r \in NormalizeRaws, d \in DetailsAnswers }

NormalizeFeature ==
    /\ last.op = "raw"
    /\ last' = [op |-> "normalize_feature", raw |-> last.raw,
                details |-> last.details,
                result |-> normalize_feature(last.raw, last.details)]
    /\ UNCHANGED <<feature_table, feature_index, requested>>

NextNormalize == NormalizeFeature

SpecNormalize == InitNormalize /\ [][NextNormalize]_geoVars

(***************************************************************************)
(* Specification SpecAddress: get_admin_level_1 and get_locality applied   *)
(* to an address of at most MaxComponents components.                      *)
(***************************************************************************)
MaxComponents == 2      \* components of an address

\* the admin levels and the address ranks a component may carry; 0 stands
\* for a component without the key
ComponentAdminLevels == {0, 2, 4, 6}
ComponentRanks == {0, 12, 13, 16, 25, 26}

AddressComponents ==
    { [type |-> "administrative",
       localname |-> "a" \o ToString(a) \o "r" \o ToString(r),
       osm_type |-> "R", osm_id |-> 100 * a + r + 1]
      @@ (IF a = 0 THEN << >> ELSE [admin_level |-> a])
      @@ (IF r = 0 THEN << >> ELSE [rank_address |-> r]) :
        a \in ComponentAdminLevels, r \in ComponentRanks }

Addresses == UNION { [1..n -> AddressComponents] : n \in 0..MaxComponents }

\* the level asked for: None, a level some component may carry, or one that
\* none carries
LevelsSought == {PyNone, Level(4), Level(6), Level(5)}

InitAddress ==
    /\ feature_table = {}
    /\ feature_index = {}
    /\ requested = {}
    /\ last \in { [op |-> "address", address |-> PyList(a), sought |-> s] :
                    a \in Addresses, s \in LevelsSought }

GetAdminLevel1 ==
    /\ last.op = "address"
    /\ last' = [op |-> "get_admin_level_1", address |-> last.address,
                sought |-> last.sought,
                result |-> get_admin_level_1(last.address, last.sought)]
    /\ UNCHANGED <<feature_table, feature_index, requested>>

GetLocality ==
    /\ last.op = "address"
    /\ last' = [op |-> "get_locality", address |-> last.address,
                sought |-> last.sought,
                result |-> get_locality(last.address)]
    /\ UNCHANGED <<feature_table, feature_index, requested>>

NextAddress == GetAdminLevel1 \/ GetLocality

SpecAddress == InitAddress /\ [][NextAddress]_geoVars

(***************************************************************************)
(* Claims about region-code resolution and the reference tables.           *)
(***************************************************************************)
\* C11: a row with the regional code "FRY10", for a country whose policy
\* code-level is 1, met by a service that finds a place at the region's
\* coordinates and finds the country, has its code cut to "FRY1" before the
\* code -> admin-unit lookup: it gets the admin_level_1 the index holds
\* for "FRY1".
C11_ScenarioD ==
    (last.op = "ECDC" /\ last.record.location = "FRY10"
        /\ PolicyRows("FR")[1].nuts_level = Level(1)
        /\ last.world.reverse = "place" /\ last.world.country)
    => /\ last.exc = NoExc
       /\ last.output.admin_level_1 = nuts_to_admin_level_1["FRY1"].name

\* the table holds, for the country, an entry of this name for the unit row
HasEntry(table, country, name, row) ==
    \E i \in 1..Len(table[country]) :
        table[country][i] = GazetteerEntry(name, row)

\* C12: a unit whose name holds the word "Oblast" anywhere ("Amur Oblast")
\* yields one more entry with that word replaced by "Region" ("Amur
\* Region") and the unit's admin_level and id, and a unit named
\* "Oblastville" yields no substituted entry.
C12_SynonymExpansion ==
    (last.op = "get_admin_levels_table")
    => \A i \in 1..Len(last.admin_units) :
          LET row == last.admin_units[i]
              country == country_code_to_name[row.iso3166_1_code]
          IN  /\ row.exonym = "Amur Oblast"
                    => HasEntry(last.country_to_admin, country, "Amur Region", row)
              /\ ~HasEntry(last.country_to_admin, country, "Regionville", row)

(***************************************************************************)
(* Claims about the policy table builder.                                  *)
(***************************************************************************)
IsPolicyTable(l) == l.op = "create_admin_level_1_table"

\* the units of a country whose NUTS code has the length of a coded level
UnitsAtCodedLevel(admin_units, country_code, coded_level) ==
    SelectSeq(admin_units,
              LAMBDA row : /\ row.iso3166_1_code = country_code
                           /\ row.nuts_code # NaN
                           /\ Len(row.nuts_code) = 2 + coded_level)

\* the longest coded level at which the country has a unit, 0 if none
LongestCodedLevel(admin_units, country_code) ==
    IF Len(UnitsAtCodedLevel(admin_units, country_code, 3)) > 0 THEN 3
    ELSE IF Len(UnitsAtCodedLevel(admin_units, country_code, 2)) > 0 THEN 2
    ELSE IF Len(UnitsAtCodedLevel(admin_units, country_code, 1)) > 0 THEN 1
    ELSE 0

\* the rows of the table for coded countries without an override
CodedRows(l) ==
    {i \in 1..Len(l.df) :
        /\ l.df[i].country_code \in l.nuts_2024 \cup {"GR"}
        /\ l.df[i].country_code \notin DOMAIN ADMIN_LEVEL_1_EXCEPTIONS}

\* C13 as stated: for a coded country without an override the target
\* admin_level is the maximum admin_level among the country's units at the
\* longest coded level present (3, else 2, else 1).
C13_LongestCodedLevelWins ==
    IsPolicyTable(last) =>
        \A i \in CodedRows(last) :
            LET c == last.df[i].country_code
                longest == LongestCodedLevel(last.admin_units, c)
            IN  longest > 0 =>
                    last.df[i].osm_level =
                        Level(SetMax({UnitsAtCodedLevel(last.admin_units, c, longest)[k].admin_level :
                                        k \in 1..Len(UnitsAtCodedLevel(last.admin_units, c, longest))}))

\* C13 as amended: for a coded country without an override the code level is
\* 3 and the target admin_level is the maximum admin_level among the
\* country's units that have a level-3 code; when no unit has one the target
\* admin_level stays empty, whatever units there are at levels 1 and 2.
C13_Level3UnitsOnly ==
    IsPolicyTable(last) =>
        \A i \in CodedRows(last) :
            LET c == last.df[i].country_code
                level3 == UnitsAtCodedLevel(last.admin_units, c, 3)
            IN  /\ last.df[i].nuts_level = Level(3)
                /\ last.df[i].osm_level =
                      IF Len(level3) = 0 THEN PyNone
                      ELSE Level(SetMax({level3[k].admin_level : k \in 1..Len(level3)}))

\* a coded country has two level-3 units of different admin levels, and the
\* table holds the greater one
C13_Witness ==
    /\ IsPolicyTable(last)
    /\ \E i \in CodedRows(last) :
          /\ last.df[i].country_code = "DE"
          /\ last.df[i].osm_level = Level(6)
          /\ Len(UnitsAtCodedLevel(last.admin_units, "DE", 3)) = 2
          /\ \E k \in 1..2 :
                UnitsAtCodedLevel(last.admin_units, "DE", 3)[k].admin_level = 4

\* C14: the row of a country of the override table holds the override's
\* code level and admin_level, whether or not the country is in the coding
\* scheme and whatever its units are.
C14_OverridesTakePrecedence ==
    IsPolicyTable(last) =>
        \A i \in 1..Len(last.df) :
            last.df[i].country_code \in DOMAIN ADMIN_LEVEL_1_EXCEPTIONS
            => /\ last.df[i].nuts_level
                    = ADMIN_LEVEL_1_EXCEPTIONS[last.df[i].country_code].nuts_level
               /\ last.df[i].osm_level
                    = ADMIN_LEVEL_1_EXCEPTIONS[last.df[i].country_code].osm_level

\* France is in the coding scheme and has a level-3 unit of admin_level 6,
\* and its row holds the override (1, 4)
C14_Witness ==
    /\ IsPolicyTable(last)
    /\ "FR" \in last.nuts_2024
    /\ \E k \in 1..Len(UnitsAtCodedLevel(last.admin_units, "FR", 3)) :
          UnitsAtCodedLevel(last.admin_units, "FR", 3)[k].admin_level = 6
    /\ \E i \in 1..Len(last.df) :
          last.df[i] = PolicyRow("FR", Level(1), Level(4))

(***************************************************************************)
(* Claims about the rows whose country has no policy entry.                *)
(***************************************************************************)
\* the row resolved its country to a name whose code has no row in the
\* policy table, and went on to resolve the admin level 1
LacksPolicyEntry(l) ==
    /\ IsRow(l)
    /\ l.output.country \in DOMAIN country_to_code
    /\ Len(PolicyRows(country_to_code[l.output.country])) = 0
    /\ l.op = "GenBank" => Len(l.record.location.areas) > 0

\* C15: a row whose resolved country has no entry in the policy table is
\* left with empty admin-level-1 fields and ends without an exception, so
\* that the loop goes on with the next row.
C15_NoPolicyEntrySkipsAdminLevel1 ==
    LacksPolicyEntry(last)
    => /\ last.exc = NoExc
       /\ last.output.admin_level_1 = NoArg
       /\ last.output.admin_level_1_osm_id = NoArg

(***************************************************************************)
(* Claims about normalize_feature and the address helpers.                 *)
(***************************************************************************)
\* the letter of each valid element type
C16_Letter ==
    ("node" :> "N") @@ ("way" :> "W") @@ ("relation" :> "R")
    @@ ("N" :> "N") @@ ("W" :> "W") @@ ("R" :> "R")

\* C16: normalize_feature gives a feature whose id is the letter of the raw
\* result's element type followed by its numeric id, and when the element
\* type is unknown or missing it raises ValueError, gives no feature and
\* sends no request.
C16_IdFromTypeAndNumber ==
    (last.op = "normalize_feature")
    => /\ Get(last.raw, "osm_type", NoArg) \notin DOMAIN C16_Letter
            => /\ last.result.outcome = "ValueError"
               /\ last.result.feature = PyNone
               /\ last.result.events = <<>>
       /\ last.result.feature # PyNone
            => last.result.feature.id
                  = C16_Letter[last.raw.osm_type] \o ToString(last.raw.osm_id)

\* a raw result of an unknown element type was refused although it has a
\* numeric id and /details would have answered
C16_Witness ==
    /\ last.op = "normalize_feature"
    /\ Get(last.raw, "osm_type", NoArg) = "bogus"
    /\ "osm_id" \in DOMAIN last.raw
    /\ last.details.status = 200
    /\ last.result.outcome = "ValueError"

\* the helper returned the name and the id of this component
ReturnedComponent(result, entry) ==
    /\ result.exc = NoExc
    /\ result.name = entry.localname
    /\ result.id = "R" \o ToString(entry.osm_id)

ReturnedNothing(result) ==
    result.exc = NoExc /\ result.name = NoArg /\ result.id = NoArg

\* the positions of the components that carry the key
Carrying(items, key) == {i \in 1..Len(items) : key \in DOMAIN items[i]}

\* C17: with a level sought, get_admin_level_1 returns a component whose
\* admin_level is that level, or nothing when no component has it; with no
\* level sought it returns the component of the least admin_level among
\* those that carry one, or nothing when none does.
C17_AdminLevel1ExactOrMinimum ==
    (last.op = "get_admin_level_1")
    => LET items == last.address.items
           levelled == Carrying(items, "admin_level")
           exact == {i \in levelled :
                        last.sought # PyNone /\ items[i].admin_level = last.sought.v}
       IN  IF last.sought # PyNone
           THEN IF exact = {} THEN ReturnedNothing(last.result)
                ELSE \E i \in exact : ReturnedComponent(last.result, items[i])
           ELSE IF levelled = {} THEN ReturnedNothing(last.result)
                ELSE \E i \in levelled :
                        /\ \A j \in levelled : items[i].admin_level <= items[j].admin_level
                        /\ ReturnedComponent(last.result, items[i])

\* level 6 was sought in an address that holds levels 2 and 4 only, and
\* nothing was returned
C17_Witness ==
    /\ last.op = "get_admin_level_1"
    /\ last.sought = Level(6)
    /\ {last.address.items[i].admin_level :
            i \in Carrying(last.address.items, "admin_level")} = {2, 4}
    /\ ReturnedNothing(last.result)

\* C18: get_locality returns the component of the least rank_address among
\* those whose rank lies in 13..25, and nothing when no component has a rank
\* in that window; a component of rank 12 or 26 is never returned.
C18_LocalityLeastRankInWindow ==
    (last.op = "get_locality")
    => LET items == last.address.items
           inside == {i \in Carrying(items, "rank_address") :
                        items[i].rank_address \in 13..25}
       IN  IF inside = {} THEN ReturnedNothing(last.result)
           ELSE \E i \in inside :
                   /\ \A j \in inside : items[i].rank_address <= items[j].rank_address
                   /\ ReturnedComponent(last.result, items[i])

\* the address holds a component of rank 12 and one of rank 25, and the one
\* of rank 25 was returned
C18_Witness ==
    /\ last.op = "get_locality"
    /\ {last.address.items[i].rank_address :
            i \in Carrying(last.address.items, "rank_address")} = {12, 25}
    /\ \E i \in 1..Len(last.address.items) :
          /\ Get(last.address.items[i], "rank_address", 0) = 25
          /\ ReturnedComponent(last.result, last.address.items[i])

(***************************************************************************)
(* Claims about the order in which get_feature and the search over the     *)
(* permutations work.                                                      *)
(***************************************************************************)
\* the stored features a lookup key selects: the row of that id, or the
\* rows the index holds for the term
HeldFor(key) ==
    {f \in feature_table : f.id = key}
    \cup {f \in feature_table :
            \E r \in feature_index, t \in Terms, tt \in TermTypes :
                key = TermKey(t, tt) /\ r.term = t /\ r.feature_id = f.id}

\* C19: a get_feature call for an id the cache holds, or for a term the
\* cache index holds, returns the cached feature, sends no request and
\* writes nothing to the cache.
C19_CacheFirst ==
    [][(IsGetFeature(last') /\ HeldFor(last'.key) # {})
          => /\ last'.ret \in HeldFor(last'.key)
             /\ last'.events = <<>>
             /\ feature_table' = feature_table
             /\ feature_index' = feature_index]_geoVars

\* a call by term was answered from the cache while the store holds the
\* feature under that term
C19_Witness ==
    /\ IsGetFeature(last) /\ last.outcome = "cache"
    /\ last.key \in {TermKey(t, tt) : t \in Terms, tt \in TermTypes}
    /\ last.ret \in HeldFor(last.key)

\* the calls of a GenBank row after its country search: the queries of its
\* one search over the permutations
Issued(l) == SubSeq(l.calls, 2, Len(l.calls))

\* the tokens left for the search and the text every query ends with, once
\* the row's areas were matched with the units of its country
SearchTokens(l) ==
    Reversed(MatchAdminLevels(admin_levels_table[l.output.country],
                              l.record.location.areas, <<>>).areas)

SearchFixedText(l) ==
    LET found == MatchAdminLevels(admin_levels_table[l.output.country],
                                  l.record.location.areas, <<>>).found
    IN  IF Len(found) = 0 THEN l.output.country
        ELSE FixedLocationText(found, l.output.country)

\* the arrangements of k of the tokens, each token used at most once
Arrangements(tokens, k) ==
    { [j \in 1..k |-> tokens[f[j]]] :
        f \in {g \in [1..k -> 1..Len(tokens)] :
                 \A a, b \in 1..k : a # b => g[a] # g[b]} }

\* the numbers of tokens a query may be made of
SizesOf(term, tokens, fixed_text) ==
    {k \in 0..Len(tokens) :
        \E p \in Arrangements(tokens, k) :
            term = str_join(", ", p) \o ", " \o fixed_text}

MaxAreas == 3            \* areas of a row
MaxMatchUnits == 3       \* administrative units of the row's country

MatchAreaNames == {"hanoi", "dak lak province", "buon ho"}

MatchUnitRows ==
    { [name |-> "Hanoi", admin_level |-> 4, osm_id |-> "1903"],
      [name |-> "Hanoi", admin_level |-> 6, osm_id |-> "1904"],
      [name |-> "dak lak province", admin_level |-> 4, osm_id |-> "1888"],
      [name |-> "Central Highlands", admin_level |-> 3, osm_id |-> "1777"] }

\* the lists of at most n elements of S
ListsUpTo(S, n) == UNION {[1..k -> S] : k \in 0..n}

InitMatch ==
    /\ feature_table = {}
    /\ feature_index = {}
    /\ requested = {}
    /\ last \in { [op |-> "areas", areas |-> areas, admin_levels |-> admin_levels] :
                    areas \in ListsUpTo(MatchAreaNames, MaxAreas),
                    admin_levels \in ListsUpTo(MatchUnitRows, MaxMatchUnits) }

MatchAreas ==
    /\ last.op = "areas"
    /\ last' = [op |-> "matched", areas |-> last.areas,
                admin_levels |-> last.admin_levels,
                result |-> MatchAdminLevels(last.admin_levels, last.areas, <<>>)]
    /\ UNCHANGED <<feature_table, feature_index, requested>>

NextMatch == MatchAreas

SpecMatch == InitMatch /\ [][NextMatch]_geoVars

(***************************************************************************)
(* Specification SpecFormat: the columns GenBankDataHandler adds to a row  *)
(* before its loop (_compile_location, _get_location_from_strain,          *)
(* _format_location), applied to location texts made of a country and a    *)
(* list of areas.                                                          *)
(***************************************************************************)
MaxPlaces == 2           \* areas after the colon of a location text

FormatCountries == {"Russia", "Viet Nam"}

FormatPlaces ==
    {" West Siberia", " East_Siberia", " Hanoi", "hanoi (city)", " Russia",
     " (x)", " "}

FormatStrains == {"A/H5N1", "A/duck/Hanoi/1/2020", "A/duck/Russia/1/2020"}

\* country[:region [, location]]
FormatLocations ==
    FormatCountries
    \cup { country \o ":" \o str_join(",", places) :
             country \in FormatCountries,
             places \in ListsUpTo(FormatPlaces, MaxPlaces) }

InitFormat ==
    /\ feature_table = {}
    /\ feature_index = {}
    /\ requested = {}
    /\ last \in { [op |-> "record", record |-> GenBankRecord(location, strain)] :
                    location \in FormatLocations, strain \in FormatStrains }

FormatLocation ==
    /\ last.op = "record"
    /\ last' = [op |-> "location", record |-> last.record,
                row |-> GenBank_add_columns(last.record)]
    /\ UNCHANGED <<feature_table, feature_index, requested>>

NextFormat == FormatLocation

SpecFormat == InitFormat /\ [][NextFormat]_geoVars

(***************************************************************************)
(* Specification SpecStore: save_feature, delete_feature and delete_all    *)
(* called in any order on one connection.  The constructor has set         *)
(* PRAGMA foreign_keys = ON.  The schema (cache_db_schema.sql) declares    *)
(* feature_index.feature_id as a foreign key to feature.id; what it says   *)
(* for ON DELETE is fixed when the store is created.                       *)
(***************************************************************************)
\* the actions a foreign key can name for the deletion of a referenced row
\* that keep the key NOT NULL: SQLite's default and the cascade
OnDeleteActions == {"NO ACTION", "CASCADE"}

\* the rows of feature_index that refer to a row of feature with this id
ReferringRows(fi, feature_id) == {r \in fi : r.feature_id = feature_id}

\* DELETE FROM feature WHERE id = ?  with the foreign keys not enforced
cache_delete_feature_Unenforced(ft, fi, feature_id, on_delete) ==
    [raised |-> FALSE, ft |-> {f \in ft : f.id # feature_id}, fi |-> fi]

\* DELETE FROM feature WHERE id = ? ; commit
cache_delete_feature(ft, fi, feature_id, on_delete) ==
    IF (\E f \in ft : f.id = feature_id)
       /\ ReferringRows(fi, feature_id) # {} /\ on_delete = "NO ACTION"
    THEN [raised |-> TRUE, ft |-> ft, fi |-> fi]
    ELSE [raised |-> FALSE,
          ft |-> {f \in ft : f.id # feature_id},
          fi |-> IF \E f \in ft : f.id = feature_id
                 THEN fi \ ReferringRows(fi, feature_id) ELSE fi]

\* DELETE FROM feature ; DELETE FROM feature_index ; commit
cache_delete_all(ft, fi, on_delete) ==
    IF (\E f \in ft : ReferringRows(fi, f.id) # {}) /\ on_delete = "NO ACTION"
    THEN [raised |-> TRUE, ft |-> ft, fi |-> fi]
    ELSE [raised |-> FALSE, ft |-> {}, fi |-> {}]

InitStore ==
    /\ feature_table = {}
    /\ feature_index = {}
    /\ requested = {}
    /\ last \in { [op |-> "open", key |-> NoArg, on_delete |-> a, raised |-> FALSE] :
                    a \in OnDeleteActions }

\* what a call leaves: the committed tables and how the call ended
Store(op, key, r) ==
    /\ feature_table' = r.ft
    /\ feature_index' = r.fi
    /\ last' = [op |-> op, key |-> key, on_delete |-> last.on_delete,
                raised |-> r.raised]
    /\ UNCHANGED requested

\* the features the calls store: one place of each id, with and without the
\* address details
StoreFeatures ==
    { normalize_feature(raw, Ok([address |-> a])).feature :
        raw \in {r \in ValidRaws : r.osm_type = "relation" /\ r.addresstype = "city"},
        a \in GeoAddresses }

StoreSaveFeature ==
    \E feature \in StoreFeatures,
       term \in Terms \cup {NoArg}, term_type \in TermTypes \cup {NoArg} :
        Store("save_feature", feature.id,
              cache_save_feature(feature_table, feature_index, feature, term, term_type))

StoreDeleteFeature ==
    \E feature_id \in FeatureIds :
        Store("delete_feature", feature_id,
              cache_delete_feature(feature_table, feature_index, feature_id,
                                   last.on_delete))

StoreDeleteAll ==
    Store("delete_all", NoArg,
          cache_delete_all(feature_table, feature_index, last.on_delete))

NextStore == StoreSaveFeature \/ StoreDeleteFeature \/ StoreDeleteAll

SpecStore == InitStore /\ [][NextStore]_geoVars

(***************************************************************************)
(* Specification SpecSearch: GenBankDataHandler._search_tokens_diff_order  *)
(* called on an empty cache with a list of tokens, repetitions allowed,    *)
(* against a service that finds a place for none or for one of the         *)
(* queries.                                                                *)
(***************************************************************************)
MaxSearchTokens == 2     \* tokens of a search

SearchTokenNames == {"buon ho", "ea drong", "krong buk"}

SearchFixedTexts == {"Vietnam", "dak lak province, Vietnam"}

\* the services a search may meet: none of its queries is answered, or one
SearchServices(areas, fixed_text) ==
    { [country |-> FALSE, answered |-> a, reverse |-> "empty", address |-> k] :
        a \in {{}} \cup {{SearchQueries(areas, fixed_text)[i]} :
                           i \in 1..Len(SearchQueries(areas, fixed_text))},
        k \in AddressKinds }

InitSearch ==
    /\ feature_table = {}
    /\ feature_index = {}
    /\ requested = {}
    /\ last \in UNION { { [op |-> "tokens", areas |-> areas,
                           fixed_text |-> fixed_text, world |-> world] :
                            world \in SearchServices(areas, fixed_text) } :
                        areas \in ListsUpTo(SearchTokenNames, MaxSearchTokens),
                        fixed_text \in SearchFixedTexts }

\* the tables the search leaves, the calls it made and what it returned
Searched(r) ==
    /\ feature_table' = r.ft
    /\ feature_index' = r.fi
    /\ last' = [op |-> "search", areas |-> last.areas,
                fixed_text |-> last.fixed_text, world |-> last.world,
                calls |-> r.calls, ret |-> r.ret, exc |-> r.exc]
    /\ UNCHANGED requested

SearchTokensDiffOrder ==
    /\ last.op = "tokens"
    /\ Searched(GenBank_search_tokens_diff_order(
                    RowState(feature_table, feature_index, <<>>, PyNone, NoExc),
                    last.areas, last.fixed_text, last.world))

NextSearch == SearchTokensDiffOrder

SpecSearch == InitSearch /\ [][NextSearch]_geoVars

(***************************************************************************)
(* The local match pass, the token normalization and the steps that        *)
(* follow the match in the free-text resolution.                           *)
(***************************************************************************)
\* how many times a token occurs in a list of tokens
Occurrences(token, tokens) == Cardinality({i \in 1..Len(tokens) : tokens[i] = token})

\* how many of the recorded matches carry the lower-cased name
MatchesNamed(name, found) ==
    Cardinality({i \in 1..Len(found) : str_lower(found[i].name) = name})

\* C21: in the local match pass every recorded match takes exactly one
\* occurrence of the entry's lower-cased name out of the token bag: the bag
\* shrinks by the number of matches, name by name; every match's name was in
\* the bag before the pass; an entry whose name the bag does not hold is not
\* recorded.
C21_MatchRemovesOneOccurrence ==
    last.op = "matched" =>
        /\ Len(last.areas) = Len(last.result.areas) + Len(last.result.found)
        /\ \A i \in 1..Len(last.result.found) :
              InSeq(str_lower(last.result.found[i].name), last.areas)
        /\ \A name \in MatchAreaNames :
              Occurrences(name, last.areas)
                  = Occurrences(name, last.result.areas)
                    + MatchesNamed(name, last.result.found)
        /\ \A i \in 1..Len(last.admin_levels) :
              ~InSeq(str_lower(last.admin_levels[i].name), last.areas)
                  => ~InSeq(last.admin_levels[i], last.result.found)

\* a bag that holds a name twice, met by two entries of that name and by an
\* entry the bag does not hold: two matches, each taking one occurrence
C21_Witness ==
    /\ last.op = "matched"
    /\ Occurrences("hanoi", last.areas) = 2
    /\ Len(last.result.found) = 2
    /\ Occurrences("hanoi", last.result.areas) = 0
    /\ \E i \in 1..Len(last.admin_levels) : last.admin_levels[i].name = "Central Highlands"

\* a GenBank row that got as far as matching its areas with the units of its
\* country: the country was found, the row has areas and the policy table
\* has a row for the country's code
ReachedMatch(l) ==
    /\ l.op = "GenBank"
    /\ l.output.country # NoArg
    /\ Len(l.record.location.areas) > 0
    /\ l.output.country \in DOMAIN country_to_code
    /\ Len(PolicyRows(country_to_code[l.output.country])) > 0

\* the areas left and the units found by the row's match
Matched(l) ==
    MatchAdminLevels(admin_levels_table[l.output.country],
                     l.record.location.areas, <<>>)

\* the matched units whose admin_level is the policy level of the country
AtPolicyLevel(l) ==
    LET level == PolicyRows(country_to_code[l.output.country])[1].osm_level
    IN  {i \in 1..Len(Matched(l).found) :
            level # PyNone /\ Matched(l).found[i].admin_level = level.v}

\* C22 as stated: when a matched entry is at the policy level and the match
\* has used up the token bag while other matched entries remain, one of the
\* remaining entries is taken as the record's locality.
C22_NextMatchBecomesLocality ==
    (ReachedMatch(last) /\ AtPolicyLevel(last) # {}
        /\ Len(Matched(last).areas) = 0
        /\ Len(Matched(last).found) > Cardinality(AtPolicyLevel(last)))
    => \E i \in 1..Len(Matched(last).found) :
          /\ i \notin AtPolicyLevel(last)
          /\ last.output.locality = Matched(last).found[i].name

\* C22 amended: when a matched entry is at the policy level, the last such
\* entry in gazetteer order gives the row's admin_level_1 name and id; the
\* matched set stays whole; with no token left the row ends there, without
\* a search and with an empty locality whatever other entries were matched;
\* with tokens left the search's fixed text names every matched entry, the
\* accepted one included.
C22_AcceptedEntryAndEmptyLocality ==
    (ReachedMatch(last) /\ AtPolicyLevel(last) # {})
    => LET found == Matched(last).found
           areas == Matched(last).areas
           accepted == found[SetMax(AtPolicyLevel(last))]
       IN  /\ last.output.admin_level_1 = accepted.name
           /\ last.output.admin_level_1_osm_id = accepted.osm_id
           /\ Len(areas) = 0
                => /\ last.output.locality = NoArg
                   /\ last.output.locality_osm_id = NoArg
                   /\ Len(last.calls) = 1
                   /\ last.exc = NoExc
           /\ Len(areas) > 0
                => /\ Len(last.calls) > 1
                   /\ last.calls[2].term
                        = str_join(", ", Reversed(areas)) \o ", "
                          \o FixedLocationText(found, last.output.country)

\* two entries matched, one at the policy level and one above it, and no
\* token was left: the row has its admin_level_1 and no locality
C22_Witness ==
    /\ ReachedMatch(last)
    /\ Len(Matched(last).areas) = 0
    /\ Len(Matched(last).found) = 2
    /\ Cardinality(AtPolicyLevel(last)) = 1
    /\ last.output.admin_level_1 = "dak lak province"
    /\ last.output.locality = NoArg

\* a row of step 7: some of its areas matched units of the country and
\* tokens remain
Step7(l) ==
    /\ ReachedMatch(l)
    /\ Len(Matched(l).found) > 0
    /\ Len(Matched(l).areas) > 0

\* every query of the row's search is an arrangement of remaining tokens,
\* then the names of all the matched entries, then the country's name
Step7_QueryShape(l) ==
    \A i \in 2..Len(l.calls) :
        SizesOf(l.calls[i].term, Reversed(Matched(l).areas),
                FixedLocationText(Matched(l).found, l.output.country)) # {}

\* an admin_level_1 taken from the match is the one the row ends with
Step7_AdminLevel1Kept(l) ==
    AtPolicyLevel(l) # {}
    => /\ l.output.admin_level_1
            = Matched(l).found[SetMax(AtPolicyLevel(l))].name
       /\ l.output.admin_level_1_osm_id
            = Matched(l).found[SetMax(AtPolicyLevel(l))].osm_id

\* the service knows a place for one of the queries the row asked
Step7_Answered(l) ==
    \E i \in 2..Len(l.calls) : l.calls[i].term \in l.world.answered

\* C23: a row of step 7 asks only queries made of remaining tokens, the
\* names of the matched entries and the country's name; the place a query
\* finds fills what is still missing of locality and admin_level_1, and an
\* admin_level_1 taken from the match is never overwritten.
C23_Step7SearchFillsTheMissing ==
    Step7(last)
    => /\ Step7_QueryShape(last)
       /\ Step7_AdminLevel1Kept(last)
       /\ Step7_Answered(last)
            => /\ last.exc = NoExc
               /\ last.world.address = "list" => last.output.locality # NoArg

\* C24: the token bag _format_location gives, the alias exception map
\* applied, holds no empty token, no token equal to the normalized country
\* text and no token twice.
C24_TokenBagNormalized ==
    last.op = "location"
    => LET areas == last.row.location.areas
       IN  /\ \A i \in 1..Len(areas) :
                 /\ areas[i] # ""
                 /\ areas[i] # last.row.location.country
           /\ \A i, j \in 1..Len(areas) : i # j => areas[i] # areas[j]

(***************************************************************************)
(* Claims about the cache store and the lookups through it.                *)
(***************************************************************************)
\* every row of feature_index refers to a row of feature
ReferencesHold(ft, fi) == \A r \in fi : \E f \in ft : f.id = r.feature_id

\* C25: whatever save_feature, delete_feature and delete_all calls were made,
\* every feature_index row refers to a feature row of the feature table, and
\* a call that raises leaves both tables as they were.
C25_ReferentialIntegrity ==
    [][/\ ReferencesHold(feature_table', feature_index')
       /\ last'.raised => /\ feature_table' = feature_table
                          /\ feature_index' = feature_index]_geoVars

\* the deletion of a feature that index rows refer to was refused and the
\* store kept the feature and the rows
C25_Witness ==
    /\ last.op = "delete_feature" /\ last.raised
    /\ \E f \in feature_table : f.id = last.key
    /\ ReferringRows(feature_index, last.key) # {}

\* C27: a get_feature call by term is served from the cache only when the
\* index holds the term under the term_type of the call; a feature saved
\* under the same term with the other term_type is not returned, the call
\* is a cache miss.
C27_TermTypeRespected ==
    [][\A t \in Terms, tt \in TermTypes :
          (IsGetFeature(last') /\ last'.key = TermKey(t, tt)
              /\ ~\E r \in feature_index : r.term = t /\ r.term_type = tt)
          => last'.outcome # "cache"]_geoVars

\* the remote answer of the call was empty, or its first result is a
\* mountain range
NegativeAnswer(l) ==
    /\ IsGetFeature(l)
    /\ Requests(l.events) # {}
    /\ \/ l.outcome = "no results" /\ l.remote = PyNone
       \/ l.remote # PyNone /\ Get(l.remote, "addresstype", "") = "mountain_range"

\* C28: a get_feature call whose remote answer is empty or a mountain range
\* leaves the feature table and the index as they were, and whatever row a
\* get_feature call adds to either table is, or refers to, the feature the
\* call returns.
C28_NegativeResultsNotCached ==
    [][/\ NegativeAnswer(last')
            => /\ feature_table' = feature_table
               /\ feature_index' = feature_index
       /\ IsGetFeature(last')
            => /\ feature_table' \ feature_table \subseteq {last'.ret}
               /\ \A r \in feature_index' \ feature_index :
                      ReturnedFeature(last') /\ r.feature_id = last'.ret.id]_geoVars

\* a search by term was answered with an empty list while the store holds
\* a feature, and no index row was written for the term
C28_Witness ==
    /\ IsGetFeature(last) /\ last.outcome = "no results" /\ last.remote = PyNone
    /\ Cardinality(Requests(last.events)) = 1
    /\ last.events[2].url = "search"
    /\ feature_table # {}
    /\ feature_index = {}

(***************************************************************************)
(* Claims about the region-code rows and the rows' output.                 *)
(***************************************************************************)
\* the country named by the address of the place the service gives for the
\* coordinates of the row's region code
RegionCountry(l) ==
    get_country_name(
        RemoteDetails(l.world,
            RemoteReverse(l.world,
                nuts_to_coordinates[l.record.location].latitude \o ", "
                    \o nuts_to_coordinates[l.record.location].longitude).body
        ).body.address).name

\* a row whose region code has coordinates, for which the service gives a
\* place with its address and finds the place's country, a country of the
\* policy table
RegionResolved(l) ==
    /\ l.op = "ECDC"
    /\ l.record.location \in DOMAIN nuts_to_coordinates
    /\ l.world.reverse = "place" /\ l.world.address = "list" /\ l.world.country
    /\ RegionCountry(l) \in DOMAIN country_to_code
    /\ Len(PolicyRows(country_to_code[RegionCountry(l)])) > 0

RegionPolicy(l) == PolicyRows(country_to_code[RegionCountry(l)])[1]

\* C26: a region code shorter than the policy code-level requires leaves the
\* row's admin_level_1 name and id empty; a code that, cut to the policy
\* code-level, is in the code -> admin-unit index gives the row the name and
\* id of the index, not those of the address hierarchy.
C26_RegionCodeResolution ==
    RegionResolved(last)
    => LET code == last.record.location
           level == RegionPolicy(last).nuts_level
           cut == NutsCodeSought(code, level)
       IN  /\ (level # PyNone /\ Len(code) < level.v + 2)
                => /\ last.output.admin_level_1 = NoArg
                   /\ last.output.admin_level_1_osm_id = NoArg
           /\ (~(level # PyNone /\ Len(code) < level.v + 2)
                 /\ cut \in DOMAIN nuts_to_admin_level_1)
                => /\ last.output.admin_level_1 = nuts_to_admin_level_1[cut].name
                   /\ last.output.admin_level_1_osm_id = nuts_to_admin_level_1[cut].id

RECURSIVE Factorial(_)
Factorial(n) == IF n = 0 THEN 1 ELSE n * Factorial(n - 1)

RECURSIVE ArrangementCount(_, _)
\* the sum over k = 0..upto of n! / (n - k)!
ArrangementCount(n, upto) ==
    IF upto = 0 THEN 1
    ELSE Factorial(n) \div Factorial(n - upto) + ArrangementCount(n, upto - 1)

\* the ways to take k of the n positions of the token list, in an order
PositionArrangements(n, k) ==
    {f \in [1..k -> 1..n] : \A a, b \in 1..k : a # b => f[a] # f[b]}

\* the query made of the tokens at the positions f, in that order
QueryOf(areas, f, fixed_text) ==
    str_join(", ", [j \in DOMAIN f |-> areas[f[j]]]) \o ", " \o fixed_text

\* C30: a search over n tokens whose queries all return no result stops
\* after exactly sum(k = 0..n) n!/(n-k)! queries and returns no result; the
\* queries are those of the arrangements of the tokens' positions, one query
\* for each, and when no token is repeated no query text is asked twice.
C30_SearchTerminates ==
    (last.op = "search"
        /\ \A i \in 1..Len(last.calls) : last.calls[i].outcome = "no results")
    => LET n == Len(last.areas)
       IN  /\ Len(last.calls) = ArrangementCount(n, n)
           /\ last.ret = PyNone /\ last.exc = NoExc
           /\ \A k \in 0..n : \A f \in PositionArrangements(n, k) :
                 \E i \in 1..Len(last.calls) :
                    last.calls[i].term = QueryOf(last.areas, f, last.fixed_text)
           /\ Len(last.calls)
                = Cardinality(UNION {PositionArrangements(n, k) : k \in 0..n})
           /\ (\A a, b \in 1..n : a # b => last.areas[a] # last.areas[b])
                => \A i, j \in 1..Len(last.calls) :
                      i # j => last.calls[i].term # last.calls[j].term

\* a search over two different tokens asked its five queries, ending with
\* the fixed text alone, and found nothing
C30_Witness ==
    /\ last.op = "search"
    /\ Len(last.areas) = 2
    /\ last.areas[1] # last.areas[2]
    /\ Len(last.calls) = 5
    /\ last.calls[5].term = ", " \o last.fixed_text
    /\ last.calls[5].outcome = "no results"
    /\ last.ret = PyNone


====
